---- MODULE Spec2Model ----
(***************************************************************************)
(* A model of Team_project.py: the contact store (AddressBook), the key    *)
(* resolver (get_record_key), the birthday window (AddressBook.upcoming),  *)
(* the note keyword search (simple_match) and the command loop of main().  *)
(*                                                                         *)
(* A Python str is a sequence of one-character strings, so that trimming,  *)
(* splitting, lowercasing, substring tests and number parsing are computed *)
(* character by character as the interpreter computes them.                *)
(***************************************************************************)
EXTENDS Integers, Sequences, FiniteSets, TLC

VARIABLES
    ab,        \* AddressBook.data: entries [key, rec] in insertion order
    nb,        \* GeneralNoteBook.notes: notes [text, tags, created_at]
    today,     \* datetime.date.today(), as <<year, month, day>>
    mode,      \* main(): "main" | "contacts" | "notes"
    status,    \* main(): "running" | "exited" | "crashed"
    disk,      \* what save_data / save_notes last wrote
    out        \* what the last command did: its outcome and what it showed

vars == <<ab, nb, today, mode, status, disk, out>>

-----------------------------------------------------------------------------
(* Python str primitives                                                   *)
(*                                                                         *)
(* The character tables cover Alphabet: ASCII without the grave accent,     *)
(* Latin-1, the Greek letter mu that the micro sign is upper-cased to, the *)
(* extended Arabic-Indic digits as decimal digits other than 0-9, and the  *)
(* white space of Python that the module can write.  Of a character        *)
(* outside Alphabet the operators have no value.                           *)

\* the tables are written as text, one character after the other
CharAt(text, i) == SubSeq(text, i, i)

CharsOf(text) == {CharAt(text, i) : i \in 1..Len(text)}

PlaceIn(c, text) == CHOOSE i \in 1..Len(text) : CharAt(text, i) = c

Alphabet ==
    CharsOf("ABCDEFGHIJKLMNOPQRSTUVWXYZÀÁÂÃÄÅÆÇÈÉÊËÌÍÎÏÐÑÒÓÔÕÖØÙÚÛÜÝÞΜabcdefghijklmnopqrstuvwxyzàáâãäåæçèéêëìíîïðñòóôõöøùúûüýþμªµºßÿ0123456789۰۱۲۳۴۵۶۷۸۹²³¹¼½¾!\"#$%&'()*+,-./:;<=>?@[\\]^_{|}~¡¢£¤¥¦§¨©«¬­®¯°±´¶·¸»¿×÷ \t\n\f\r  ")

\* a character of Alphabet is known; of any other character Known has no value,
\* and neither has an operator that asks for it
Known == [c \in Alphabet |-> c]

UpperLetters == "ABCDEFGHIJKLMNOPQRSTUVWXYZÀÁÂÃÄÅÆÇÈÉÊËÌÍÎÏÐÑÒÓÔÕÖØÙÚÛÜÝÞΜ"

\* the lower-case partner of each upper-case letter, position by position
LowerLetters == "abcdefghijklmnopqrstuvwxyzàáâãäåæçèéêëìíîïðñòóôõöøùúûüýþμ"

UpperSet == CharsOf(UpperLetters)

LowerSet == CharsOf(LowerLetters)

\* letters that are not in the one-to-one case tables
OtherLetters == CharsOf("ªµºßÿ")

\* the decimal digits, to int() and to the regular expression class \d: 0 to 9, and
\* the extended Arabic-Indic digits zero to nine
Digits == "0123456789۰۱۲۳۴۵۶۷۸۹"

DigitSet == CharsOf(Digits)

\* digits that are no decimal digits: str.isdigit() holds of them, int() rejects them
SuperscriptSet == CharsOf("²³¹")

\* numeric characters that are no digits: \w takes them, str.isdigit() does not
FractionSet == CharsOf("¼½¾")

\* white space to str.strip(), str.split() and str.isspace(): space, tab, line feed,
\* vertical tab, form feed, carriage return, the file, group, record and unit
\* separators, next line, no-break space, ogham space
SpaceSet == CharsOf(" \t\n\f\r  ")

\* the separators are no white space to int()
IntSpaceSet == SpaceSet \ CharsOf("")

InSeq(c, s) == \E i \in 1..Len(s) : s[i] = c

\* the lower-case letter of each upper-case letter, and the converse
ToLower == [c \in UpperSet |-> CharAt(LowerLetters, PlaceIn(c, UpperLetters))]

ToUpper == [c \in LowerSet |-> CharAt(UpperLetters, PlaceIn(c, LowerLetters))]

\* the value of each decimal digit
DigitValue == [c \in DigitSet |-> (PlaceIn(c, Digits) - 1) % 10]

\* str.lower() on one character
LowerChar(c) == IF c \in UpperSet THEN ToLower[c] ELSE Known[c]

\* the characters str.upper() leaves as they are, but for the four below; the
\* upper-case partner of y with diaeresis (U+0178) is outside Alphabet
KeptByUpper == [c \in Alphabet \ {"ÿ"} |-> c]

\* str.upper() on one character, a string: the sharp s becomes two letters
UpperChar(c) ==
    IF c \in LowerSet THEN <<ToUpper[c]>>
    ELSE IF c = "µ" THEN <<"Μ">>
    ELSE IF c = "ß" THEN <<"S", "S">>
    ELSE <<KeptByUpper[c]>>

\* str.title() on one character, a string
TitleChar(c) == IF c = "ß" THEN <<"S", "s">> ELSE UpperChar(c)

\* str.lower()
Lower(s) == [i \in 1..Len(s) |-> LowerChar(s[i])]

\* str.isalpha() on one character
IsLetter(c) == Known[c] \in UpperSet \cup LowerSet \cup OtherLetters

\* whether str.title() takes the character for a cased one: in Alphabet, the letters
IsCased(c) == IsLetter(c)

\* str.isdigit() on one character
IsDigitChar(c) == Known[c] \in DigitSet \cup SuperscriptSet

\* a decimal digit: what int() and the regular expression class \d take
IsDecimalChar(c) == Known[c] \in DigitSet

\* a character of the regular expression class \w
IsWordChar(c) == IsLetter(c) \/ IsDigitChar(c) \/ c \in FractionSet \/ c = "_"

\* str.isspace() on one character
IsSpace(c) == Known[c] \in SpaceSet

\* str.title(): a letter is title-cased after a character without case, lower-cased
\* after a cased one
RECURSIVE TitleFrom(_, _)
TitleFrom(s, i) ==
    IF i > Len(s) THEN <<>>
    ELSE (IF i = 1 \/ ~IsCased(s[i - 1]) THEN TitleChar(s[i]) ELSE <<LowerChar(s[i])>>)
         \o TitleFrom(s, i + 1)

Title(s) == TitleFrom(s, 1)

RECURSIVE LStrip(_)
LStrip(s) == IF s # <<>> /\ IsSpace(Head(s)) THEN LStrip(Tail(s)) ELSE s

RECURSIVE RStrip(_)
RStrip(s) ==
    IF s # <<>> /\ IsSpace(s[Len(s)]) THEN RStrip(SubSeq(s, 1, Len(s) - 1)) ELSE s

\* str.strip()
Strip(s) == RStrip(LStrip(s))

\* the length of the leading run of non-blank characters
RECURSIVE TokenLen(_)
TokenLen(s) == IF s = <<>> \/ IsSpace(Head(s)) THEN 0 ELSE 1 + TokenLen(Tail(s))

\* str.split(): the maximal runs of non-blank characters, left to right
RECURSIVE Split(_)
Split(s) ==
    LET t == LStrip(s)
        n == TokenLen(t)
    IN  IF t = <<>> THEN <<>>
        ELSE <<SubSeq(t, 1, n)>> \o Split(SubSeq(t, n + 1, Len(t)))

\* str.split(maxsplit=1): the first token, then the rest without its leading blanks
SplitMax1(s) ==
    LET t    == LStrip(s)
        n    == TokenLen(t)
        rest == LStrip(SubSeq(t, n + 1, Len(t)))
    IN  IF t = <<>> THEN <<>>
        ELSE IF rest = <<>> THEN <<SubSeq(t, 1, n)>>
        ELSE <<SubSeq(t, 1, n), rest>>

\* sep.join(parts)
RECURSIVE Join(_, _)
Join(sep, parts) ==
    IF parts = <<>> THEN <<>>
    ELSE IF Len(parts) = 1 THEN parts[1]
    ELSE parts[1] \o sep \o Join(sep, Tail(parts))

StartsWith(s, p) == Len(p) <= Len(s) /\ SubSeq(s, 1, Len(p)) = p

\* p in s, scanning s from the left
RECURSIVE Contains(_, _)
Contains(s, p) ==
    IF StartsWith(s, p) THEN TRUE
    ELSE IF s = <<>> THEN FALSE
    ELSE Contains(Tail(s), p)

\* str.isdigit()
IsDigit(s) == s # <<>> /\ \A i \in 1..Len(s) : IsDigitChar(s[i])

\* str.isdecimal(): of a string that str.isdigit() holds of, whether int() takes it
IsDecimal(s) == s # <<>> /\ \A i \in 1..Len(s) : IsDecimalChar(s[i])

\* int(s) of a string of decimal digits
RECURSIVE ToInt(_)
ToInt(s) ==
    IF s = <<>> THEN 0
    ELSE 10 * ToInt(SubSeq(s, 1, Len(s) - 1)) + DigitValue[s[Len(s)]]

\* s without the white space that int() skips at its ends
RECURSIVE IntStrip(_)
IntStrip(s) ==
    IF s # <<>> /\ Known[Head(s)] \in IntSpaceSet THEN IntStrip(Tail(s))
    ELSE IF s # <<>> /\ Known[s[Len(s)]] \in IntSpaceSet THEN IntStrip(SubSeq(s, 1, Len(s) - 1))
    ELSE s

\* int(s): white space around, an optional sign, then decimal digits with single
\* underscores between them; ok is FALSE where int raises ValueError
ParseInt(s) ==
    LET t      == IntStrip(s)
        signed == t # <<>> /\ t[1] \in {"-", "+"}
        body   == IF signed THEN Tail(t) ELSE t
        IsDigitHere(c) == c # "_"
        digits == SelectSeq(body, IsDigitHere)
        shape  == /\ body # <<>>
                  /\ \A i \in 1..Len(body) : IsDecimalChar(body[i]) \/ body[i] = "_"
                  /\ body[1] # "_" /\ body[Len(body)] # "_"
                  /\ \A i \in 1..(Len(body) - 1) : ~(body[i] = "_" /\ body[i + 1] = "_")
    IN  IF ~shape THEN [ok |-> FALSE, value |-> 0]
        ELSE [ok |-> TRUE,
              value |-> IF signed /\ t[1] = "-" THEN 0 - ToInt(digits) ELSE ToInt(digits)]

Range(s) == {s[i] : i \in 1..Len(s)}

\* the positions of a sequence, as a set
Positions(s) == 1..Len(s)

-----------------------------------------------------------------------------
(* datetime.date                                                           *)

NoDate == <<>>

IsLeap(y) == (y % 4 = 0 /\ y % 100 # 0) \/ y % 400 = 0

DaysInMonth(y, m) ==
    IF m = 2 THEN (IF IsLeap(y) THEN 29 ELSE 28)
    ELSE IF m \in {4, 6, 9, 11} THEN 30 ELSE 31

\* whether datetime.date(y, m, d) is constructed rather than raising ValueError
ValidDate(y, m, d) ==
    /\ y >= 1 /\ y <= 9999
    /\ m >= 1 /\ m <= 12
    /\ d >= 1 /\ d <= DaysInMonth(y, m)

RECURSIVE DaysBeforeMonth(_, _)
DaysBeforeMonth(y, m) ==
    IF m = 1 THEN 0 ELSE DaysBeforeMonth(y, m - 1) + DaysInMonth(y, m - 1)

\* date.toordinal(): the number of days from 1 January of year 1, plus one
Ordinal(dt) ==
    LET y == dt[1] - 1
    IN  y * 365 + (y \div 4) - (y \div 100) + (y \div 400)
        + DaysBeforeMonth(dt[1], dt[2]) + dt[3]

\* a < b on dates
DateBefore(a, b) ==
    \/ a[1] < b[1]
    \/ a[1] = b[1] /\ a[2] < b[2]
    \/ a[1] = b[1] /\ a[2] = b[2] /\ a[3] < b[3]

\* the positions of the full stops of a string, left to right
RECURSIVE DotsFrom(_, _)
DotsFrom(s, i) ==
    IF i > Len(s) THEN <<>>
    ELSE IF s[i] = "." THEN <<i>> \o DotsFrom(s, i + 1)
    ELSE DotsFrom(s, i + 1)

\* datetime.strptime(value, "%d.%m.%Y").date(): the format is the regular
\* expression (3[0-1]|[1-2]\d|0[1-9]|[1-9]| [1-9])\.(1[0-2]|0[1-9]|[1-9])\.(\d\d\d\d)
\* matched against the whole of value, each part is read with int(), and the parts
\* must form a calendar date
strptime(value) ==
    LET dots == DotsFrom(value, 1)
        ds   == SubSeq(value, 1, dots[1] - 1)
        ms   == SubSeq(value, dots[1] + 1, dots[2] - 1)
        ys   == SubSeq(value, dots[2] + 1, Len(value))
        OneToNine == CharsOf("123456789")
        day  == \/ /\ Len(ds) = 2
                   /\ \/ ds[1] = "3" /\ ds[2] \in {"0", "1"}
                      \/ ds[1] \in {"1", "2"} /\ IsDecimalChar(ds[2])
                      \/ ds[1] \in {"0", " "} /\ ds[2] \in OneToNine
                \/ Len(ds) = 1 /\ ds[1] \in OneToNine
        month == \/ /\ Len(ms) = 2
                    /\ \/ ms[1] = "1" /\ ms[2] \in {"0", "1", "2"}
                       \/ ms[1] = "0" /\ ms[2] \in OneToNine
                 \/ Len(ms) = 1 /\ ms[1] \in OneToNine
        year == Len(ys) = 4 /\ IsDecimal(ys)
        d    == ParseInt(ds).value
        m    == ParseInt(ms).value
        y    == ParseInt(ys).value
    IN  IF Len(dots) = 2 /\ day /\ month /\ year /\ ValidDate(y, m, d)
        THEN [ok |-> TRUE, date |-> <<y, m, d>>]
        ELSE [ok |-> FALSE, date |-> NoDate]

-----------------------------------------------------------------------------
(* Field validators                                                        *)

\* Name.__init__ succeeds
NameOk(value) == Strip(value) # <<>>

\* Phone.__init__ succeeds
PhoneOk(value) == IsDigit(value) /\ Len(value) = 10

\* Email.EMAIL_RE.fullmatch(v): [^@]+ @ [^@]+ \. [^@]+
EMAIL_RE(v) ==
    \E i \in Positions(v) : \E j \in Positions(v) :
        /\ v[i] = "@" /\ v[j] = "."
        /\ 1 < i /\ i + 1 < j /\ j < Len(v)
        /\ \A k \in Positions(v) : k # i => v[k] # "@"

\* Email.__init__ succeeds
EmailOk(value) == LET v == Strip(value) IN v = <<>> \/ EMAIL_RE(v)

\* Birthday.__init__: the date, or the ValueError it raises
Birthday(value, now) ==
    LET Checked(p) ==
            IF ~p.ok
            THEN [exc |-> "ValueError", msg |-> "Date must be DD.MM.YYYY", value |-> NoDate]
            ELSE IF DateBefore(now, p.date)
            THEN [exc |-> "ValueError", msg |-> "Birthday cannot be in the future.",
                  value |-> NoDate]
            ELSE [exc |-> "none", msg |-> "", value |-> p.date]
    IN  Checked(strptime(value))

-----------------------------------------------------------------------------
(* Record and AddressBook                                                  *)

\* Record.__init__, for a name and an e-mail that pass their validators
Record(name, surname, address, email) ==
    [name          |-> Strip(name),
     surname       |-> surname,
     address       |-> address,
     email         |-> Strip(email),
     phones        |-> <<>>,
     birthday      |-> NoDate,
     contact_notes |-> <<>>]

\* make_key(name, surname)
make_key(name, surname) == Lower(Strip(name \o <<" ">> \o surname))

\* the position of key in book.data, 0 when absent
KeyIndex(book, key) ==
    IF \E i \in Positions(book) : book[i].key = key
    THEN CHOOSE i \in Positions(book) : book[i].key = key
    ELSE 0

\* book.data[key] = rec: a present key keeps its place, a new one goes last
SetItem(book, key, rec) ==
    IF KeyIndex(book, key) = 0 THEN Append(book, [key |-> key, rec |-> rec])
    ELSE [book EXCEPT ![KeyIndex(book, key)].rec = rec]

\* del book.data[key], for a present key
DelItem(book, key) ==
    LET i == KeyIndex(book, key)
    IN  SubSeq(book, 1, i - 1) \o SubSeq(book, i + 1, Len(book))

\* [x for x in s if Test(x)], by position set
RECURSIVE Filter(_, _)
Filter(s, keep) ==
    IF s = <<>> THEN <<>>
    ELSE LET n == Len(s)
             front == Filter(SubSeq(s, 1, n - 1), keep)
         IN  IF n \in keep THEN Append(front, s[n]) ELSE front

\* get_record_key with any(...) in place of all(...): a key is a candidate as soon
\* as one part of the name occurs in it
get_record_key_any_part(name, book, sel) ==
    LET Select(name_parts, matches, idx) ==
            LET none   == [found |-> FALSE, key |-> <<>>, listed |-> <<>>, prompts |-> 0,
                           exc |-> "none"]
                listed == [i \in Positions(matches) |-> <<i, Title(matches[i])>>]
            IN  IF name_parts = <<>> THEN none
                ELSE IF Len(matches) = 1
                THEN [found |-> TRUE, key |-> matches[1], listed |-> <<>>, prompts |-> 0,
                      exc |-> "none"]
                ELSE IF Len(matches) > 1
                THEN IF IsDigit(idx) /\ ~IsDecimal(idx)
                     THEN [found |-> FALSE, key |-> <<>>, listed |-> listed, prompts |-> 1,
                           exc |-> "ValueError"]
                     ELSE IF IsDigit(idx) /\ 1 <= ToInt(idx) /\ ToInt(idx) <= Len(matches)
                     THEN [found |-> TRUE, key |-> matches[ToInt(idx)],
                           listed |-> listed, prompts |-> 1, exc |-> "none"]
                     ELSE [found |-> FALSE, key |-> <<>>, listed |-> listed, prompts |-> 1,
                           exc |-> "none"]
                ELSE none
        Matches(name_parts, keys) ==
            Filter(keys, {i \in Positions(keys) :
                \E p \in Positions(name_parts) : Contains(keys[i], Lower(name_parts[p]))})
        Resolve(name_parts) ==
            Select(name_parts, Matches(name_parts, [i \in Positions(book) |-> book[i].key]),
                   Strip(sel))
    IN  Resolve(SplitMax1(Strip(name)))

\* get_record_key accepting the selection 0, which matches[int(idx) - 1] takes
\* from the end of the list
get_record_key_from_zero(name, book, sel) ==
    LET Select(name_parts, matches, idx) ==
            LET none   == [found |-> FALSE, key |-> <<>>, listed |-> <<>>, prompts |-> 0,
                           exc |-> "none"]
                listed == [i \in Positions(matches) |-> <<i, Title(matches[i])>>]
            IN  IF name_parts = <<>> THEN none
                ELSE IF Len(matches) = 1
                THEN [found |-> TRUE, key |-> matches[1], listed |-> <<>>, prompts |-> 0,
                      exc |-> "none"]
                ELSE IF Len(matches) > 1
                THEN IF IsDigit(idx) /\ ~IsDecimal(idx)
                     THEN [found |-> FALSE, key |-> <<>>, listed |-> listed, prompts |-> 1,
                           exc |-> "ValueError"]
                     ELSE IF IsDigit(idx) /\ 0 <= ToInt(idx) /\ ToInt(idx) <= Len(matches)
                     THEN [found |-> TRUE, key |-> matches[IF ToInt(idx) = 0 THEN Len(matches) ELSE ToInt(idx)],
                           listed |-> listed, prompts |-> 1, exc |-> "none"]
                     ELSE [found |-> FALSE, key |-> <<>>, listed |-> listed, prompts |-> 1,
                           exc |-> "none"]
                ELSE none
        Matches(name_parts, keys) ==
            Filter(keys, {i \in Positions(keys) :
                \A p \in Positions(name_parts) : Contains(keys[i], Lower(name_parts[p]))})
        Resolve(name_parts) ==
            Select(name_parts, Matches(name_parts, [i \in Positions(book) |-> book[i].key]),
                   Strip(sel))
    IN  Resolve(SplitMax1(Strip(name)))

\* get_record_key(name, book), with sel the answer given if a selection is asked
\* for: the key returned (found), the candidates listed, the prompts made, and the
\* ValueError of int(idx) for a selection of digits that are not decimal
get_record_key(name, book, sel) ==
    LET Select(name_parts, matches, idx) ==
            LET none   == [found |-> FALSE, key |-> <<>>, listed |-> <<>>, prompts |-> 0,
                           exc |-> "none"]
                listed == [i \in Positions(matches) |-> <<i, Title(matches[i])>>]
            IN  IF name_parts = <<>> THEN none
                ELSE IF Len(matches) = 1
                THEN [found |-> TRUE, key |-> matches[1], listed |-> <<>>, prompts |-> 0,
                      exc |-> "none"]
                ELSE IF Len(matches) > 1
                THEN IF IsDigit(idx) /\ ~IsDecimal(idx)
                     THEN [found |-> FALSE, key |-> <<>>, listed |-> listed, prompts |-> 1,
                           exc |-> "ValueError"]
                     ELSE IF IsDigit(idx) /\ 1 <= ToInt(idx) /\ ToInt(idx) <= Len(matches)
                     THEN [found |-> TRUE, key |-> matches[ToInt(idx)],
                           listed |-> listed, prompts |-> 1, exc |-> "none"]
                     ELSE [found |-> FALSE, key |-> <<>>, listed |-> listed, prompts |-> 1,
                           exc |-> "none"]
                ELSE none
        Matches(name_parts, keys) ==
            Filter(keys, {i \in Positions(keys) :
                \A p \in Positions(name_parts) : Contains(keys[i], Lower(name_parts[p]))})
        Resolve(name_parts) ==
            Select(name_parts, Matches(name_parts, [i \in Positions(book) |-> book[i].key]),
                   Strip(sel))
    IN  Resolve(SplitMax1(Strip(name)))

\* make_key_from_input(fullname): make_key(*parts) raises TypeError without a part
make_key_from_input(fullname) ==
    LET parts == SplitMax1(Strip(fullname))
    IN  IF parts = <<>> THEN [exc |-> "TypeError", key |-> <<>>]
        ELSE IF Len(parts) = 1 THEN [exc |-> "none", key |-> make_key(parts[1], <<>>)]
        ELSE [exc |-> "none", key |-> make_key(parts[1], parts[2])]

-----------------------------------------------------------------------------
(* Command words, CONTACT_DESC, NOTE_DESC, ARG_SPEC and collect_args       *)

kw_add == <<"a","d","d">>

kw_change == <<"c","h","a","n","g","e">>

kw_change_ == <<"c","h","a","n","g","e","_">>

kw_remove_phone == <<"r","e","m","o","v","e","-","p","h","o","n","e">>

kw_phone == <<"p","h","o","n","e">>

kw_delete == <<"d","e","l","e","t","e">>

kw_all == <<"a","l","l">>

kw_search == <<"s","e","a","r","c","h">>

kw_add_birthday == <<"a","d","d","-","b","i","r","t","h","d","a","y">>

kw_show_birthday == <<"s","h","o","w","-","b","i","r","t","h","d","a","y">>

kw_birthdays == <<"b","i","r","t","h","d","a","y","s">>

kw_add_contact_note == <<"a","d","d","-","c","o","n","t","a","c","t","-","n","o","t","e">>

kw_change_address == <<"c","h","a","n","g","e","-","a","d","d","r","e","s","s">>

kw_change_email == <<"c","h","a","n","g","e","-","e","m","a","i","l">>

kw_back == <<"b","a","c","k">>

kw_exit == <<"e","x","i","t">>

kw_hello == <<"h","e","l","l","o">>

kw_help == <<"h","e","l","p">>

kw_add_note == <<"a","d","d","-","n","o","t","e">>

kw_list_notes == <<"l","i","s","t","-","n","o","t","e","s">>

kw_add_tag == <<"a","d","d","-","t","a","g">>

kw_search_tag == <<"s","e","a","r","c","h","-","t","a","g">>

kw_search_note == <<"s","e","a","r","c","h","-","n","o","t","e">>

kw_exit_or_close == <<"e","x","i","t"," ","|"," ","c","l","o","s","e">>

kw_hello_or_help == <<"h","e","l","l","o"," ","|"," ","h","e","l","p">>

kw_close == <<"c","l","o","s","e">>

kw_contacts == <<"c","o","n","t","a","c","t","s">>

kw_notes == <<"n","o","t","e","s">>

kw_email == <<"e","m","a","i","l">>

kw_address == <<"a","d","d","r","e","s","s">>

kw_y == <<"y">>

\* list(CONTACT_DESC.keys())
CONTACT_CMDS ==
    <<kw_add, kw_change, kw_remove_phone, kw_phone,
      kw_delete, kw_all, kw_search, kw_add_birthday,
      kw_show_birthday, kw_birthdays, kw_add_contact_note, kw_change_address,
      kw_change_email, kw_back, kw_exit, kw_hello,
      kw_help>>

\* list(NOTE_DESC.keys())
NOTE_CMDS ==
    <<kw_add_note, kw_list_notes, kw_add_tag, kw_search_tag,
      kw_search_note, kw_back, kw_exit_or_close, kw_hello_or_help>>

\* ARG_SPEC.get(cmd, 0)
ARG_SPEC(cmd) ==
    IF cmd \in {kw_remove_phone, kw_add_birthday, kw_add_contact_note,
                kw_change_address, kw_change_email, kw_add_tag} THEN 2
    ELSE IF cmd \in {kw_change_, kw_phone, kw_delete, kw_show_birthday, kw_search,
                     kw_birthdays, kw_search_tag, kw_search_note} THEN 1
    ELSE 0

\* len(prompts.get(cmd, [])) in collect_args
PromptCount(cmd) ==
    IF cmd \in {kw_remove_phone, kw_add_birthday, kw_add_contact_note, kw_add_tag} THEN 2
    ELSE IF cmd \in {kw_phone, kw_delete, kw_show_birthday, kw_search, kw_birthdays,
                     kw_search_tag, kw_search_note} THEN 1
    ELSE 0

\* [t for t in re.split(r"[ ,]+", s) if t]: the maximal runs without blank or comma
RECURSIVE SplitTags(_)
SplitTags(s) ==
    LET IsSep(c) == c = " " \/ c = ","
        first == IF \E i \in Positions(s) : ~IsSep(s[i])
                 THEN CHOOSE i \in Positions(s) :
                        ~IsSep(s[i]) /\ \A j \in 1..(i - 1) : IsSep(s[j])
                 ELSE 0
        last  == IF first = 0 THEN 0
                 ELSE CHOOSE j \in first..Len(s) :
                        /\ \A k \in first..j : ~IsSep(s[k])
                        /\ (j = Len(s) \/ IsSep(s[j + 1]))
    IN  IF first = 0 THEN <<>>
        ELSE <<SubSeq(s, first, last)>> \o SplitTags(SubSeq(s, last + 1, Len(s)))

\* collect_args(cmd), answers being what is typed at its prompts
collect_args(cmd, answers) ==
    LET stripped == [i \in Positions(answers) |-> Strip(answers[i])]
    IN  IF cmd = kw_add_tag /\ Len(stripped) = 2
        THEN <<stripped[1]>> \o SplitTags(stripped[2])
        ELSE stripped

-----------------------------------------------------------------------------
(* AddressBook.upcoming and show_birthdays                                 *)

\* the projection with 1 March, not 28 February, standing in for a 29 February
\* that the year does not have
NextBirthday_first_of_march(birthday, now) ==
    LET month == birthday[2]
        day   == birthday[3]
        year  == now[1]
        this  == IF ValidDate(year, month, day) THEN <<year, month, day>>
                 ELSE <<year, 3, 1>>
    IN  IF DateBefore(this, now)
        THEN IF ValidDate(year + 1, month, day) THEN <<year + 1, month, day>>
             ELSE <<year + 1, 3, 1>>
        ELSE this

\* the projection of a birthday onto the year of now, or onto the next year
NextBirthday(birthday, now) ==
    LET month == birthday[2]
        day   == birthday[3]
        year  == now[1]
        this  == IF ValidDate(year, month, day) THEN <<year, month, day>>
                 ELSE <<year, 2, 28>>
    IN  IF DateBefore(this, now)
        THEN IF ValidDate(year + 1, month, day) THEN <<year + 1, month, day>>
             ELSE <<year + 1, 2, 28>>
        ELSE this

\* result[rec.name.value] = (next_bd, age): a dict entry, in insertion order
UpcomingEntry(result, rec, next_bd) ==
    SetItem(result, rec.name, [date |-> next_bd, age |-> next_bd[1] - rec.birthday[1]])

\* the loop of AddressBook.upcoming from the i-th record on
RECURSIVE UpcomingFrom(_, _, _, _, _)
UpcomingFrom(book, i, days_ahead, now, result) ==
    IF i > Len(book) THEN result
    ELSE LET rec     == book[i].rec
             next_bd == NextBirthday(rec.birthday, now)
             delta   == Ordinal(next_bd) - Ordinal(now)
         IN  IF rec.birthday = NoDate
             THEN UpcomingFrom(book, i + 1, days_ahead, now, result)
             ELSE IF 0 <= delta /\ delta <= days_ahead
             THEN UpcomingFrom(book, i + 1, days_ahead, now,
                               UpcomingEntry(result, rec, next_bd))
             ELSE UpcomingFrom(book, i + 1, days_ahead, now, result)

\* upcoming with delta < days_ahead: the last day of the window is left out
upcoming_last_day_excluded(book, days_ahead, now) ==
    UpcomingFrom(book, 1, days_ahead - 1, now, <<>>)

\* AddressBook.upcoming(days_ahead)
upcoming(book, days_ahead, now) == UpcomingFrom(book, 1, days_ahead, now, <<>>)

\* sorted(matches.items(), key=lambda x: x[1][0]): a stable sort by date
RECURSIVE SortByDate(_)
SortByDate(matches) ==
    IF matches = <<>> THEN <<>>
    ELSE LET n     == Len(matches)
             front == SortByDate(SubSeq(matches, 1, n - 1))
             x     == matches[n]
             \* x goes after every entry whose date is not later than its own
             k     == Cardinality({i \in Positions(front) :
                          ~DateBefore(x.rec.date, front[i].rec.date)})
         IN  SubSeq(front, 1, k) \o <<x>> \o SubSeq(front, k + 1, n - 1)

-----------------------------------------------------------------------------
(* handle_contact                                                          *)

\* get_record_key's result when nothing was resolved and nothing was asked
NoKey == [found |-> FALSE, key |-> <<>>, listed |-> <<>>, prompts |-> 0, exc |-> "none"]

\* a handler returning msg, with the book as the handler leaves it
Return(book, msg, rk, shown) ==
    [ab |-> book, exc |-> "none", msg |-> msg, found |-> rk.found, key |-> rk.key,
     listed |-> rk.listed, prompts |-> rk.prompts, shown |-> shown]

\* a handler raising exc, with the book as it is when the exception leaves it
Raise(book, exc, msg, rk) ==
    [ab |-> book, exc |-> exc, msg |-> msg, found |-> rk.found, key |-> rk.key,
     listed |-> rk.listed, prompts |-> rk.prompts, shown |-> <<>>]

PhoneError == "Phone must contain exactly 10 digits."

IntError == "invalid literal for int()"

EmailError == "Invalid e-mail format."

\* the add branch with rec.phones = [Phone(phone)] on an update: the new phone
\* takes the place of the earlier ones
AddContact_phone_replaced(name, surname, phone, email, address, book) ==
    LET key == make_key(name, surname)
        i   == KeyIndex(book, key)
        rec == book[i].rec
        r1  == IF phone # <<>> THEN [rec EXCEPT !.phones = <<phone>>] ELSE rec
        r2  == IF surname # <<>> THEN [r1 EXCEPT !.surname = surname] ELSE r1
        r3  == IF email # <<>> THEN [r2 EXCEPT !.email = Strip(email)] ELSE r2
        r4  == IF address # <<>> THEN [r3 EXCEPT !.address = address] ELSE r3
        new == Record(name, surname, address, email)
        n1  == IF phone # <<>> THEN [new EXCEPT !.phones = Append(@, phone)] ELSE new
    IN  IF i # 0
        THEN IF phone # <<>> /\ ~PhoneOk(phone)
             THEN Raise(book, "ValueError", PhoneError, NoKey)
             ELSE IF email # <<>> /\ ~EmailOk(email)
             THEN Raise(SetItem(book, key, r2), "ValueError", EmailError, NoKey)
             ELSE Return(SetItem(book, key, r4), "Contact updated.", NoKey, <<>>)
        ELSE IF email # <<>> /\ ~EmailOk(email)
             THEN Raise(book, "ValueError", EmailError, NoKey)
             ELSE IF ~NameOk(name)
             THEN Raise(book, "ValueError", "Name cannot be empty.", NoKey)
             ELSE IF phone # <<>> /\ ~PhoneOk(phone)
             THEN Raise(book, "ValueError", PhoneError, NoKey)
             ELSE Return(SetItem(book, key, n1), "Contact added.", NoKey, <<>>)

\* the body of the add branch once name, surname, phone, email and address are known
AddContact(name, surname, phone, email, address, book) ==
    LET key == make_key(name, surname)
        i   == KeyIndex(book, key)
        rec == book[i].rec
        r1  == IF phone # <<>> THEN [rec EXCEPT !.phones = Append(@, phone)] ELSE rec
        r2  == IF surname # <<>> THEN [r1 EXCEPT !.surname = surname] ELSE r1
        r3  == IF email # <<>> THEN [r2 EXCEPT !.email = Strip(email)] ELSE r2
        r4  == IF address # <<>> THEN [r3 EXCEPT !.address = address] ELSE r3
        new == Record(name, surname, address, email)
        n1  == IF phone # <<>> THEN [new EXCEPT !.phones = Append(@, phone)] ELSE new
    IN  IF i # 0
        THEN IF phone # <<>> /\ ~PhoneOk(phone)
             THEN Raise(book, "ValueError", PhoneError, NoKey)
             ELSE IF email # <<>> /\ ~EmailOk(email)
             THEN Raise(SetItem(book, key, r2), "ValueError", EmailError, NoKey)
             ELSE Return(SetItem(book, key, r4), "Contact updated.", NoKey, <<>>)
        ELSE IF email # <<>> /\ ~EmailOk(email)
             THEN Raise(book, "ValueError", EmailError, NoKey)
             ELSE IF ~NameOk(name)
             THEN Raise(book, "ValueError", "Name cannot be empty.", NoKey)
             ELSE IF phone # <<>> /\ ~PhoneOk(phone)
             THEN Raise(book, "ValueError", PhoneError, NoKey)
             ELSE Return(SetItem(book, key, n1), "Contact added.", NoKey, <<>>)

\* prompt_validated(prompt, factory, allow_blank), answers being the lines typed at
\* the prompt one after the other and printed the messages already printed: each
\* line is stripped, a line the factory rejects has its message printed and the
\* prompt made again; returned is FALSE while the prompt still waits for a line
RECURSIVE prompt_validated(_, _, _, _)
prompt_validated(answers, factory, allow_blank, printed) ==
    IF answers = <<>> THEN [returned |-> FALSE, value |-> <<>>, printed |-> printed]
    ELSE LET raw == Strip(Head(answers))
         IN  IF raw = <<>> /\ allow_blank
             THEN [returned |-> TRUE, value |-> <<>>, printed |-> printed]
             ELSE IF factory = "None"
             THEN [returned |-> TRUE, value |-> raw, printed |-> printed]
             ELSE IF factory = "Phone" /\ ~PhoneOk(raw)
             THEN prompt_validated(Tail(answers), factory, allow_blank,
                                   Append(printed, PhoneError))
             ELSE IF factory = "Email" /\ ~EmailOk(raw)
             THEN prompt_validated(Tail(answers), factory, allow_blank,
                                   Append(printed, EmailError))
             ELSE [returned |-> TRUE, value |-> raw, printed |-> printed]

\* the exception field of a handler that has not returned: one of its prompts still
\* waits for a line, and the loop does not go on
Pending == "pending"

\* the add branch: its fields come from the arguments, or from prompts without any;
\* in.name, in.surname, in.phone, in.email and in.address are the lines typed at them
HandleAdd(args, book, in) ==
    LET rest    == Tail(args)
        name    == prompt_validated(in.name, "None", FALSE, <<>>)
        surname == prompt_validated(in.surname, "None", TRUE, <<>>)
        phone   == prompt_validated(in.phone, "Phone", TRUE, <<>>)
        email   == prompt_validated(in.email, "Email", TRUE, phone.printed)
        address == prompt_validated(in.address, "None", TRUE, <<>>)
    IN  IF args = <<>>
        THEN IF \E p \in {name, surname, phone, email, address} : ~p.returned
             THEN Raise(book, Pending, "", NoKey)
             ELSE [AddContact(name.value, surname.value, phone.value, email.value,
                              address.value, book)
                   EXCEPT !.shown = email.printed]
        ELSE AddContact(args[1],
                        IF Len(rest) > 0 THEN rest[1] ELSE <<>>,
                        IF Len(rest) > 1 THEN rest[2] ELSE <<>>,
                        IF Len(rest) > 2 THEN rest[3] ELSE <<>>,
                        IF Len(rest) > 3 THEN Join(<<" ">>, SubSeq(rest, 4, Len(rest)))
                        ELSE <<>>,
                        book)

\* the change branch: in.who, in.field and in.new are typed at its prompts
HandleChange(book, in) ==
    LET Change(rk, field, new) ==
            LET key    == rk.key
                record == book[KeyIndex(book, key)].rec
            IN  IF rk.exc # "none" THEN Raise(book, rk.exc, IntError, rk)
                ELSE IF ~rk.found THEN Return(book, "Ooops. Contact not found :-(", rk, <<>>)
                ELSE IF field = kw_phone
                THEN IF PhoneOk(new)
                     THEN Return(SetItem(book, key, [record EXCEPT !.phones = <<new>>]),
                                 "Phone updated", rk, <<>>)
                     ELSE Raise(SetItem(book, key, [record EXCEPT !.phones = <<>>]),
                                "ValueError", PhoneError, rk)
                ELSE IF field = kw_email
                THEN IF EmailOk(new)
                     THEN Return(SetItem(book, key, [record EXCEPT !.email = Strip(new)]),
                                 "Email updated", rk, <<>>)
                     ELSE Raise(book, "ValueError", EmailError, rk)
                ELSE IF field = kw_address
                THEN Return(SetItem(book, key, [record EXCEPT !.address = new]),
                            "Address updated", rk, <<>>)
                ELSE Return(book, "Unknown command. Choose from: phone / email / address",
                            rk, <<>>)
    IN  Change(get_record_key(Strip(in.who), book, in.sel), Lower(Strip(in.field)),
               Strip(in.new))

\* AddressBook.find(name), then Update applied to the record found
WithFound(name, book, in, Update(_, _, _)) ==
    LET Found(rk) ==
            IF rk.exc # "none" THEN Raise(book, rk.exc, IntError, rk)
            ELSE IF ~rk.found THEN Raise(book, "KeyError", "Contact not found.", rk)
            ELSE Update(rk, rk.key, book[KeyIndex(book, rk.key)].rec)
    IN  Found(get_record_key(name, book, in.sel))

\* the remove-phone branch
HandleRemovePhone(args, book, in) ==
    LET Update(rk, key, rec) ==
            Return(SetItem(book, key,
                       [rec EXCEPT !.phones =
                           Filter(@, {i \in Positions(@) : @[i] # args[2]})]),
                   "Phone removed.", rk, <<>>)
    IN  IF Len(args) # 2 THEN Raise(book, "ValueError", "unpack", NoKey)
        ELSE WithFound(args[1], book, in, Update)

\* the phone branch
HandlePhone(args, book, in) ==
    LET Update(rk, key, rec) ==
            Return(book, IF rec.phones = <<>> THEN "No phones." ELSE "phones", rk,
                   Join(<<",", " ">>, rec.phones))
    IN  IF Len(args) # 1 THEN Raise(book, "ValueError", "unpack", NoKey)
        ELSE WithFound(args[1], book, in, Update)

\* AddressBook.delete(name)
AddressBook_delete(book, name) ==
    LET k == make_key_from_input(name)
    IN  IF k.exc # "none" THEN Raise(book, k.exc, "make_key", NoKey)
        ELSE IF KeyIndex(book, k.key) = 0 THEN Raise(book, "KeyError", "key", NoKey)
        ELSE Return(DelItem(book, k.key), "Contact deleted.", NoKey, <<>>)

\* the delete branch
HandleDelete(args, book) ==
    IF Len(args) # 1 THEN Raise(book, "ValueError", "unpack", NoKey)
    ELSE AddressBook_delete(book, args[1])

\* the add-birthday branch with an add_birthday that does not look whether a birthday
\* is set: a valid date takes the place of the earlier one
HandleAddBirthday_overwrite(args, book, in, now) ==
    LET Set(rk, key, rec, b) ==
            IF b.exc # "none" THEN Raise(book, b.exc, b.msg, rk)
            ELSE Return(SetItem(book, key, [rec EXCEPT !.birthday = b.value]),
                        "Birthday added.", rk, <<>>)
        Update(rk, key, rec) == Set(rk, key, rec, Birthday(args[2], now))
    IN  IF Len(args) # 2 THEN Raise(book, "ValueError", "unpack", NoKey)
        ELSE WithFound(args[1], book, in, Update)

\* the add-birthday branch: Record.add_birthday on the record found
HandleAddBirthday(args, book, in, now) ==
    LET Set(rk, key, rec, b) ==
            IF rec.birthday # NoDate
            THEN Raise(book, "ValueError", "Birthday already set.", rk)
            ELSE IF b.exc # "none" THEN Raise(book, b.exc, b.msg, rk)
            ELSE Return(SetItem(book, key, [rec EXCEPT !.birthday = b.value]),
                        "Birthday added.", rk, <<>>)
        Update(rk, key, rec) == Set(rk, key, rec, Birthday(args[2], now))
    IN  IF Len(args) # 2 THEN Raise(book, "ValueError", "unpack", NoKey)
        ELSE WithFound(args[1], book, in, Update)

\* the add-contact-note branch: Record.add_contact_note on the record found
HandleAddContactNote(args, book, in) ==
    LET note == Join(<<" ">>, Tail(args))
        Update(rk, key, rec) ==
            IF Strip(note) = <<>> THEN Raise(book, "ValueError", "Note cannot be empty.", rk)
            ELSE Return(SetItem(book, key,
                            [rec EXCEPT !.contact_notes = Append(@, Strip(note))]),
                        "Note added.", rk, <<>>)
    IN  IF args = <<>> THEN Raise(book, "ValueError", "unpack", NoKey)
        ELSE WithFound(args[1], book, in, Update)

\* the loop of show_birthdays from the i-th entry on: book.find(key) for each entry
\* of the sorted matches, sels[i] being the answer if that lookup asks for a selection
RECURSIVE ShowFrom(_, _, _, _, _)
ShowFrom(book, ordered, i, sels, acc) ==
    LET Show(rk) ==
            IF ~rk.found
            THEN [exc |-> IF rk.exc # "none" THEN rk.exc ELSE "KeyError",
                  panels |-> acc.panels, prompts |-> acc.prompts + rk.prompts]
            ELSE ShowFrom(book, ordered, i + 1, sels,
                          [exc |-> "none",
                           panels |-> Append(acc.panels,
                                             [entry |-> ordered[i].key, key |-> rk.key,
                                              date |-> ordered[i].rec.date,
                                              age |-> ordered[i].rec.age]),
                           prompts |-> acc.prompts + rk.prompts])
    IN  IF i > Len(ordered) THEN acc
        ELSE Show(get_record_key(ordered[i].key, book, sels[i]))

\* show_birthdays(book, matches)
show_birthdays(book, matches, sels) ==
    ShowFrom(book, SortByDate(matches), 1, sels,
             [exc |-> "none", panels |-> <<>>, prompts |-> 0])

\* the birthdays branch
HandleBirthdays(args, book, in, now) ==
    LET Shown(sb) ==
            IF sb.exc # "none"
            THEN Raise(book, sb.exc,
                       IF sb.exc = "ValueError" THEN IntError ELSE "Contact not found.",
                       [NoKey EXCEPT !.prompts = sb.prompts])
            ELSE Return(book, "", [NoKey EXCEPT !.prompts = sb.prompts], sb.panels)
    IN  IF Len(args) # 1 THEN Raise(book, "ValueError", "unpack", NoKey)
        ELSE IF ~IsDigit(args[1])
        THEN Raise(book, "ValueError", "Enter non-negative integer.", NoKey)
        ELSE IF ~IsDecimal(args[1]) THEN Raise(book, "ValueError", IntError, NoKey)
        ELSE Shown(show_birthdays(book, upcoming(book, ToInt(args[1]), now), in.sels))

\* the search branch: the keys of the records shown
HandleSearch(args, book) ==
    LET q == args[1]
        Hit(r) == \/ Contains(Lower(r.name), Lower(q))
                  \/ Contains(Lower(r.surname), Lower(q))
                  \/ \E i \in Positions(r.phones) : Contains(r.phones[i], q)
                  \/ \E i \in Positions(r.contact_notes) :
                         Contains(Lower(r.contact_notes[i]), Lower(q))
        hits == Filter(book, {i \in Positions(book) : Hit(book[i].rec)})
    IN  IF Len(args) # 1 THEN Raise(book, "ValueError", "unpack", NoKey)
        ELSE Return(book, "", NoKey, [i \in Positions(hits) |-> hits[i].key])

\* the show-birthday branch: the keys of the records whose name or surname is the word
HandleShowBirthday(args, book) ==
    LET key == args[1]
        matches == Filter(book, {i \in Positions(book) :
                       Lower(key) \in {Lower(book[i].rec.name), Lower(book[i].rec.surname)}})
    IN  IF Len(args) # 1 THEN Raise(book, "ValueError", "unpack", NoKey)
        ELSE IF matches = <<>> THEN Raise(book, "KeyError", "Contact not found.", NoKey)
        ELSE Return(book, "birthday lines", NoKey,
                    [i \in Positions(matches) |-> matches[i].key])

\* handle_contact(parts, ab) before its decorator: parts is never empty
handle_contact_body(parts, book, in, now) ==
    LET cmd  == parts[1]
        args == Tail(parts)
    IN  IF cmd \in {kw_hello, kw_help} THEN Return(book, "", NoKey, <<"help contacts">>)
        ELSE IF cmd = kw_add THEN HandleAdd(args, book, in)
        ELSE IF cmd = kw_change THEN HandleChange(book, in)
        ELSE IF cmd = kw_remove_phone THEN HandleRemovePhone(args, book, in)
        ELSE IF cmd = kw_phone THEN HandlePhone(args, book, in)
        ELSE IF cmd = kw_delete THEN HandleDelete(args, book)
        ELSE IF cmd = kw_all
        THEN Return(book, "", NoKey, [i \in Positions(book) |-> book[i].key])
        ELSE IF cmd = kw_search THEN HandleSearch(args, book)
        ELSE IF cmd = kw_add_birthday THEN HandleAddBirthday(args, book, in, now)
        ELSE IF cmd = kw_show_birthday THEN HandleShowBirthday(args, book)
        ELSE IF cmd = kw_birthdays THEN HandleBirthdays(args, book, in, now)
        ELSE IF cmd = kw_add_contact_note THEN HandleAddContactNote(args, book, in)
        ELSE IF cmd \in {kw_back, kw_exit, kw_close} THEN Return(book, "BACK", NoKey, <<>>)
        ELSE Return(book, "Unknown contact command.", NoKey, <<>>)

\* input_error: KeyError, IndexError and ValueError become a message; any other
\* exception goes on to the caller
input_error(r) ==
    IF r.exc \in {"KeyError", "IndexError"}
    THEN [r EXCEPT !.msg = "Invalid command or args."] @@ [caught |-> TRUE]
    ELSE IF r.exc = "ValueError" THEN r @@ [caught |-> TRUE]
    ELSE r @@ [caught |-> FALSE]

\* handle_contact(parts, ab), decorated
handle_contact(parts, book, in, now) ==
    CHOOSE d \in {input_error(r) : r \in {handle_contact_body(parts, book, in, now)}} : TRUE

-----------------------------------------------------------------------------
(* Notes: GeneralNote, simple_match and handle_notes                       *)

\* GeneralNote.__init__
GeneralNote(text, tags, now) == [text |-> Strip(text), tags |-> tags, created_at |-> now]

\* the length of the leading run of \w characters
RECURSIVE WordLen(_)
WordLen(s) == IF s = <<>> \/ ~IsWordChar(Head(s)) THEN 0 ELSE 1 + WordLen(Tail(s))

\* re.findall(r"\w+", s): the maximal runs of \w characters, left to right
RECURSIVE FindAllWords(_)
FindAllWords(s) ==
    IF s = <<>> THEN <<>>
    ELSE IF ~IsWordChar(Head(s)) THEN FindAllWords(Tail(s))
    ELSE <<SubSeq(s, 1, WordLen(s))>> \o FindAllWords(SubSeq(s, WordLen(s) + 1, Len(s)))

\* simple_match looking in the text alone, the tags left out
simple_match_text_only(query, note) ==
    LET q_words == {Lower(w) : w \in Range(FindAllWords(query))}
        text    == Lower(note.text)
    IN  \A word \in q_words : Contains(text, word)

\* simple_match(query, note)
simple_match(query, note) ==
    LET q_words == {Lower(w) : w \in Range(FindAllWords(query))}
        text    == Lower(note.text)
        tags    == Lower(Join(<<" ">>, note.tags))
    IN  \A word \in q_words : \E field \in {text, tags} : Contains(field, word)

\* a handler of notes returning msg
NReturn(notes, msg, shown) == [nb |-> notes, exc |-> "none", msg |-> msg, shown |-> shown]

\* a handler of notes raising exc
NRaise(notes, exc, msg) == [nb |-> notes, exc |-> exc, msg |-> msg, shown |-> <<>>]

\* the add-note branch: in.text, in.yes and in.tags are typed at its prompts, and
\* in.interrupt names the prompt, if any, at which Ctrl-C is typed instead. The note
\* is stored by nb.add_note(text, []) before the prompts for its tags are made, so
\* that a KeyboardInterrupt at either of them leaves it stored without tags
HandleAddNote(args, notes, in, now) ==
    LET text   == IF args # <<>> THEN Join(<<" ">>, args) ELSE in.text
        yes    == StartsWith(Lower(in.yes), kw_y)
        tags   == IF yes THEN SplitTags(in.tags) ELSE <<>>
        stored == Append(notes, GeneralNote(text, <<>>, now))
    IN  IF args = <<>> /\ in.interrupt = "Text: "
        THEN NRaise(notes, "KeyboardInterrupt", "")
        ELSE IF Strip(text) = <<>> THEN NRaise(notes, "ValueError", "Empty note.")
        ELSE IF in.interrupt = "Add tags? (y/n): " \/ (yes /\ in.interrupt = "Tags: ")
        THEN NRaise(stored, "KeyboardInterrupt", "")
        ELSE NReturn(Append(notes, GeneralNote(text, tags, now)), "Note saved.", <<>>)

\* the add-tag branch: nb.notes[int(idx) - 1].tags.extend(tags)
HandleAddTag(args, notes) ==
    LET idx == ParseInt(args[1])
        n   == Len(notes)
        \* a Python index: from the end when negative
        pos == IF idx.value - 1 >= 0 THEN idx.value ELSE n + idx.value
    IN  IF args = <<>> THEN NRaise(notes, "ValueError", "unpack")
        ELSE IF ~idx.ok THEN NRaise(notes, "ValueError", IntError)
        ELSE IF pos < 1 \/ pos > n THEN NRaise(notes, "IndexError", "list index out of range")
        ELSE NReturn([notes EXCEPT ![pos].tags = @ \o Tail(args)], "Tags added.", <<>>)

\* the search-tag branch: the positions of the notes that carry the tag
HandleSearchTag(args, notes, in) ==
    LET tag == IF args # <<>> THEN args[1] ELSE in.text
    IN  NReturn(notes, "", Filter([i \in Positions(notes) |-> i],
                               {i \in Positions(notes) : tag \in Range(notes[i].tags)}))

\* the search-note branch: the positions of the keyword matches; without any, the
\* semantic search, which is disabled without key.txt
HandleSearchNote(args, notes, in) ==
    LET query == IF args # <<>> THEN Join(<<" ">>, args) ELSE in.text
        hits  == Filter([i \in Positions(notes) |-> i],
                        {i \in Positions(notes) : simple_match(query, notes[i])})
    IN  IF notes = <<>> THEN NReturn(notes, "No notes to search.", <<>>)
        ELSE IF hits # <<>> THEN NReturn(notes, "Keyword match:", hits)
        ELSE NReturn(notes, "AI search disabled (no key.txt).", <<>>)

\* handle_notes(parts, nb) before its decorator
handle_notes_body(parts, notes, in, now) ==
    LET cmd  == parts[1]
        args == Tail(parts)
    IN  IF cmd \in {kw_hello, kw_help} THEN NReturn(notes, "", <<"help notes">>)
        ELSE IF cmd = kw_add_note THEN HandleAddNote(args, notes, in, now)
        ELSE IF cmd = kw_list_notes THEN NReturn(notes, "", [i \in Positions(notes) |-> i])
        ELSE IF cmd = kw_add_tag THEN HandleAddTag(args, notes)
        ELSE IF cmd = kw_search_tag THEN HandleSearchTag(args, notes, in)
        ELSE IF cmd = kw_search_note THEN HandleSearchNote(args, notes, in)
        ELSE NReturn(notes, "", <<>>)

\* handle_notes(parts, nb), decorated
handle_notes(parts, notes, in, now) ==
    CHOOSE d \in {input_error(r) : r \in {handle_notes_body(parts, notes, in, now)}} : TRUE

-----------------------------------------------------------------------------
(* main(): the command loop                                                *)

MaxPhones == 2

MaxContactNotes == 1

MaxNotes == 2

MaxTags == 2

\* the lines typed at a prompt of prompt_validated: one empty line
BlankLine == <<<<>>>>

\* what is typed at the prompts a handler makes itself; a handler reads only its own
NoInput ==
    [sel |-> <<>>, sels |-> <<<<>>, <<>>, <<>>, <<>>>>, who |-> <<>>, field |-> <<>>,
     new |-> <<>>, name |-> BlankLine, surname |-> BlankLine, phone |-> BlankLine,
     email |-> BlankLine, address |-> BlankLine, text |-> <<>>, yes |-> <<>>,
     tags |-> <<>>, interrupt |-> ""]

\* the record of a command: the parts handed to the handler, and what came of it
Outcome(where, parts, in, r) ==
    [mode |-> where, parts |-> parts, in |-> in, exc |-> r.exc, caught |-> r.caught, msg |-> r.msg,
     found |-> r.found, key |-> r.key, listed |-> r.listed, prompts |-> r.prompts,
     shown |-> r.shown]

\* a step of the loop that reaches no handler
NoHandler(where, parts, msg) ==
    [mode |-> where, parts |-> parts, in |-> NoInput, exc |-> "none", caught |-> FALSE, msg |-> msg,
     found |-> FALSE, key |-> <<>>, listed |-> <<>>, prompts |-> 0, shown |-> <<>>]

\* save_data(username, ab); save_notes(username, nb)
Saved == [ab |-> ab, nb |-> nb, saved |-> TRUE]

\* parts += collect_args(parts[0]) when fewer arguments than ARG_SPEC asks for
WithArgs(parts, answers) ==
    IF Len(parts) - 1 < ARG_SPEC(parts[1])
    THEN parts \o collect_args(parts[1], SubSeq(answers, 1, PromptCount(parts[1])))
    ELSE parts

\* the bounds of the model: the lengths the lists of a book may reach
ContactsWithinBounds(book) ==
    \A i \in Positions(book) :
        /\ Len(book[i].rec.phones) <= MaxPhones
        /\ Len(book[i].rec.contact_notes) <= MaxContactNotes

NotesWithinBounds(notes) ==
    /\ Len(notes) <= MaxNotes
    /\ \A i \in Positions(notes) : Len(notes[i].tags) <= MaxTags

\* the contacts branch of the loop from "need = ..." on, for the parts of a known
\* command: an exception input_error lets through ends main() without a save
DispatchContact(parts0, answers, in) ==
    \E parts \in {WithArgs(parts0, answers)} :
    \E r \in {handle_contact(parts, ab, in, today)} :
        /\ r.exc # Pending
        /\ ContactsWithinBounds(r.ab)
        /\ ab' = r.ab
        /\ out' = Outcome("contacts", parts, in, r)
        /\ status' = IF r.exc # "none" /\ ~r.caught THEN "crashed" ELSE status
        /\ mode' = IF r.exc = "none" /\ r.msg = "BACK" THEN "main" ELSE mode
        /\ UNCHANGED <<nb, today, disk>>

\* the contacts branch of the loop for a line whose first word is the command cmd
ContactLine(cmd, raw, answers, in) ==
    /\ status = "running" /\ mode = "contacts"
    /\ \E parts0 \in {Split(Strip(raw))} :
        /\ Strip(raw) \notin {kw_exit, kw_close, kw_back}
        /\ parts0 # <<>>
        /\ parts0[1] = cmd
        /\ InSeq(cmd, CONTACT_CMDS)
        /\ DispatchContact(parts0, answers, in)

\* the notes branch of the loop from "need = ..." on: a KeyboardInterrupt raised at
\* a prompt of the handler reaches the except clause of main(), which saves both
\* books as the handler left them and leaves the loop
DispatchNotes(parts0, answers, in) ==
    \E parts \in {WithArgs(parts0, answers)} :
    \E r \in {handle_notes(parts, nb, in, today) @@ NoKey} :
        /\ NotesWithinBounds(r.nb)
        /\ nb' = r.nb
        /\ IF r.exc = "KeyboardInterrupt"
           THEN /\ out' = Outcome("notes", parts, in,
                                  [r EXCEPT !.msg = "Interrupted. Saving ..."])
                /\ disk' = [ab |-> ab, nb |-> r.nb, saved |-> TRUE]
                /\ status' = "exited"
                /\ mode' = mode
           ELSE /\ out' = Outcome("notes", parts, in, r)
                /\ disk' = disk
                /\ status' = IF r.exc # "none" /\ ~r.caught THEN "crashed" ELSE status
                /\ mode' = IF r.exc = "none" /\ r.msg = "BACK" THEN "main" ELSE mode
        /\ UNCHANGED <<ab, today>>

\* the notes branch of the loop for a line whose first word is the command cmd
NotesLine(cmd, raw, answers, in) ==
    /\ status = "running" /\ mode = "notes"
    /\ \E parts0 \in {Split(Strip(raw))} :
        /\ Strip(raw) \notin {kw_exit, kw_close, kw_back}
        /\ parts0 # <<>>
        /\ parts0[1] = cmd
        /\ InSeq(cmd, NOTE_CMDS)
        /\ DispatchNotes(parts0, answers, in)

\* a line whose first word is no command of the mode: suggest_correction returns
\* None without key.txt, and the loop prints "Unknown command."; an empty line
\* is skipped
UnknownLine(raw) ==
    /\ status = "running" /\ mode \in {"contacts", "notes"}
    /\ Strip(raw) \notin {kw_exit, kw_close, kw_back}
    /\ LET parts == Split(Strip(raw))
       IN  /\ parts # <<>> =>
                ~InSeq(parts[1], IF mode = "contacts" THEN CONTACT_CMDS ELSE NOTE_CMDS)
           /\ out' = NoHandler(mode, parts, IF parts = <<>> THEN "" ELSE "Unknown command.")
    /\ UNCHANGED <<ab, nb, today, mode, status, disk>>

\* "back" typed in contacts or notes mode
BackLine(raw) ==
    /\ status = "running" /\ mode \in {"contacts", "notes"}
    /\ Strip(raw) = kw_back
    /\ mode' = "main"
    /\ out' = NoHandler(mode, <<kw_back>>, "")
    /\ UNCHANGED <<ab, nb, today, status, disk>>

\* "exit" or "close" typed in contacts or notes mode: save both books and leave
ExitLine(raw) ==
    /\ status = "running" /\ mode \in {"contacts", "notes"}
    /\ Strip(raw) \in {kw_exit, kw_close}
    /\ disk' = Saved
    /\ status' = "exited"
    /\ out' = NoHandler(mode, <<Strip(raw)>>, "Data saved. Bye!")
    /\ UNCHANGED <<ab, nb, today, mode>>

\* the main menu: a mode is chosen, or the books are saved and the loop left
MainMenu(raw) ==
    /\ status = "running" /\ mode = "main"
    /\ LET choice == Lower(Strip(raw))
       IN  /\ mode' = IF choice \in {kw_contacts, kw_notes}
                      THEN (IF choice = kw_contacts THEN "contacts" ELSE "notes")
                      ELSE mode
           /\ status' = IF choice \in {kw_exit, kw_close} THEN "exited" ELSE status
           /\ disk' = IF choice \in {kw_exit, kw_close} THEN Saved ELSE disk
           /\ out' = NoHandler("main", <<choice>>,
                               IF choice \in {kw_exit, kw_close} THEN "Data saved. Bye!"
                               ELSE IF choice \in {kw_contacts, kw_notes} THEN ""
                               ELSE "Unknown mode.")
    /\ UNCHANGED <<ab, nb, today>>

\* KeyboardInterrupt at a prompt of the loop: save both books and leave
Interrupt ==
    /\ status = "running"
    /\ disk' = Saved
    /\ status' = "exited"
    /\ out' = NoHandler(mode, <<>>, "Interrupted. Saving ...")
    /\ UNCHANGED <<ab, nb, today, mode>>

-----------------------------------------------------------------------------
(* The values typed in the runs that are checked                           *)

s_Ann == <<"A","n","n">>

s_Ann_padded == <<" ","A","n","n","\t">>

\* a surname of white space only
s_padded == <<" "," ">>

e_good_padded == <<" ","a","@","b",".","c","o"," ">>

\* the selection 1 in extended Arabic-Indic digits
c_eastern_1 == <<"۱">>

\* the selection 2 with white space around it
c_2_padded == <<" ", "2", "\t">>

s_ann == <<"a","n","n">>

s_john == <<"j","o","h","n">>

s_smith == <<"s","m","i","t","h">>

s_zed == <<"z","e","d">>

p_first == <<"1","2","3","4","5","6","7","8","9","0">>

p_second == <<"0","9","8","7","6","5","4","3","2","1">>

p_short == <<"1","2","3","4","5">>

e_good == <<"a","@","b",".","c","o">>

e_bad == <<"a","@","b">>

s_kyiv == <<"K","y","i","v">>

s_n == <<"n">>

l_add == <<"a","d","d">>

l_add_john_smith == <<"a","d","d"," ","j","o","h","n"," ","s","m","i","t","h">>

l_add_john_smith_bad_email == <<"a","d","d"," ","j","o","h","n"," ","s","m","i","t","h"," ","0","9","8","7","6","5","4","3","2","1"," ","a","@","b">>

l_add_john_smith_bad_phone == <<"a","d","d"," ","j","o","h","n"," ","s","m","i","t","h"," ","1","2","3","4","5">>

l_add_john_SMITH_full == <<"a","d","d"," ","j","o","h","n"," ","S","M","I","T","H"," ","1","2","3","4","5","6","7","8","9","0"," ","a","@","b",".","c","o"," ","k","y","i","v"," ","1">>

\* add, a tab, a name with an accented capital, two blanks, a surname
l_add_Eva_tab == <<"a","d","d","\t","É","v","a"," "," ","s","m","i","t","h">>

l_add_Ann == <<"a","d","d"," ","A","n","n">>

l_add_john_doe == <<"a","d","d"," ","j","o","h","n"," ","d","o","e">>

l_add_birthday_ann_leap_day == <<"a","d","d","-","b","i","r","t","h","d","a","y"," ","a","n","n"," ","2","9",".","0","2",".","2","0","0","0">>

l_add_birthday_ann_march == <<"a","d","d","-","b","i","r","t","h","d","a","y"," ","a","n","n"," ","0","1",".","0","3",".","2","0","0","0">>

l_add_birthday_smith_march == <<"a","d","d","-","b","i","r","t","h","d","a","y"," ","s","m","i","t","h"," ","0","1",".","0","3",".","1","9","9","9">>

l_add_birthday_doe_january == <<"a","d","d","-","b","i","r","t","h","d","a","y"," ","d","o","e"," ","0","1",".","0","1",".","2","0","0","1">>

l_birthdays_0 == <<"b","i","r","t","h","d","a","y","s"," ","0">>

l_birthdays_1 == <<"b","i","r","t","h","d","a","y","s"," ","1">>

l_birthdays_2 == <<"b","i","r","t","h","d","a","y","s"," ","2">>

l_birthdays_365 == <<"b","i","r","t","h","d","a","y","s"," ","3","6","5">>

l_birthdays_366 == <<"b","i","r","t","h","d","a","y","s"," ","3","6","6">>

l_add_note == <<"a","d","d","-","n","o","t","e">>

l_search_note == <<"s","e","a","r","c","h","-","n","o","t","e">>

l_search_note_blue_car == <<"s","e","a","r","c","h","-","n","o","t","e"," ","b","l","u","e"," ","c","a","r">>

l_search_note_car == <<"s","e","a","r","c","h","-","n","o","t","e"," ","c","a","r">>

l_add_tag_1_car == <<"a","d","d","-","t","a","g"," ","1"," ","c","a","r">>

t_my_blue_sedan == <<"m","y"," ","b","l","u","e"," ","s","e","d","a","n">>

t_red_car == <<"r","e","d"," ","c","a","r">>

t_Blue == <<"B","l","u","e">>

t_car == <<"c","a","r">>

t_big_Car == <<"b","i","g",","," ","C","a","r">>

q_Blue_CAR == <<"B","l","u","e",","," ","C","A","R","!">>

q_lue_ed == <<"l","u","e"," ","e","d">>

q_big_car == <<"b","i","g"," ","c","a","r">>

q_mark == <<"?">>

l_change == <<"c","h","a","n","g","e">>

l_remove_phone_ann == <<"r","e","m","o","v","e","-","p","h","o","n","e"," ","a","n","n"," ","1","2","3","4","5","6","7","8","9","0">>

l_remove_phone == <<"r","e","m","o","v","e","-","p","h","o","n","e">>

l_phone_smith == <<"p","h","o","n","e"," ","s","m","i","t","h">>

l_phone == <<"p","h","o","n","e">>

l_delete == <<"d","e","l","e","t","e">>

l_delete_smith == <<"d","e","l","e","t","e"," ","s","m","i","t","h">>

l_delete_ann == <<"d","e","l","e","t","e"," ","a","n","n">>

l_add_birthday_ann == <<"a","d","d","-","b","i","r","t","h","d","a","y"," ","a","n","n"," ","2","9",".","0","2",".","2","0","2","4">>

l_add_birthday_ann_future == <<"a","d","d","-","b","i","r","t","h","d","a","y"," ","a","n","n"," ","0","1",".","0","1",".","2","0","3","0">>

l_add_birthday_ann_nodate == <<"a","d","d","-","b","i","r","t","h","d","a","y"," ","a","n","n"," ","3","1",".","0","2",".","2","0","0","0">>

l_add_contact_note_ann == <<"a","d","d","-","c","o","n","t","a","c","t","-","n","o","t","e"," ","a","n","n"," ","h","i">>

l_all == <<"a","l","l">>

l_search_ann == <<"s","e","a","r","c","h"," ","a","n","n">>

l_show_birthday_ann == <<"s","h","o","w","-","b","i","r","t","h","d","a","y"," ","a","n","n">>

l_show_birthday_paul == <<"s","h","o","w","-","b","i","r","t","h","d","a","y"," ","p","a","u","l">>

l_birthdays_7 == <<"b","i","r","t","h","d","a","y","s"," ","7">>

l_birthdays_soon == <<"b","i","r","t","h","d","a","y","s"," ","s","o","o","n">>

l_help == <<"h","e","l","p">>

l_hello == <<"h","e","l","l","o">>

l_change_email_ann == <<"c","h","a","n","g","e","-","e","m","a","i","l"," ","a","n","n"," ","a","@","b",".","c","o">>

l_change_address_ann == <<"c","h","a","n","g","e","-","a","d","d","r","e","s","s"," ","a","n","n"," ","K","y","i","v">>

l_exit_now == <<"e","x","i","t"," ","n","o","w">>

l_blank == <<" "," ">>

l_add_tag_0_food == <<"a","d","d","-","t","a","g"," ","0"," ","f","o","o","d">>

\* the index 1, written with an underscore between its digits
l_add_tag_0_1_food == <<"a","d","d","-","t","a","g"," ","0","_","1"," ","f","o","o","d">>

l_add_tag_2_food == <<"a","d","d","-","t","a","g"," ","2"," ","f","o","o","d">>

l_add_tag_x_food == <<"a","d","d","-","t","a","g"," ","x"," ","f","o","o","d">>

l_list_notes == <<"l","i","s","t","-","n","o","t","e","s">>

l_search_tag_food == <<"s","e","a","r","c","h","-","t","a","g"," ","f","o","o","d">>

l_add_john_smith_first == <<"a","d","d"," ","j","o","h","n"," ","s","m","i","t","h"," ","1","2","3","4","5","6","7","8","9","0">>

l_add_john_doe_second == <<"a","d","d"," ","j","o","h","n"," ","d","o","e"," ","0","9","8","7","6","5","4","3","2","1">>

l_add_ann == <<"a","d","d"," ","a","n","n">>

t_john == <<"j","o","h","n">>

t_JOHN == <<"J","O","H","N">>

t_smith == <<"s","m","i","t","h">>

t_paul == <<"p","a","u","l">>

t_john_smith == <<"j","o","h","n"," "," "," ","s","m","i","t","h">>

t_smith_john == <<"s","m","i","t","h"," ","j","o","h","n">>

t_john_smith_john == <<"j","o","h","n"," ","s","m","i","t","h"," ","j","o","h","n">>

t_n == <<"n">>

t_blank == <<" ">>

c_0 == <<"0">>

c_1 == <<"1">>

c_2 == <<"2">>

c_3 == <<"3">>

c_01 == <<"0","1">>

c_x == <<"x">>

c_superscript_2 == <<"²">>

-----------------------------------------------------------------------------
(* Spec: a session of the command loop, from an empty address book and an  *)
(* empty note book                                                         *)

\* the day of the session
SessionDay == <<2024, 3, 1>>

Init ==
    /\ ab = <<>>
    /\ nb = <<>>
    /\ today = SessionDay
    /\ mode = "main"
    /\ status = "running"
    /\ disk = [ab |-> <<>>, nb |-> <<>>, saved |-> FALSE]
    /\ out = NoHandler("main", <<>>, "")

\* the lines typed at the prompts of the add branch
AddInputs ==
    {[NoInput EXCEPT !.name = <<s_Ann>>, !.phone = p] :
        p \in {BlankLine, <<p_first>>, <<p_short, p_first>>}}

AddLines == {l_add_john_smith, l_add_john_smith_bad_email, l_add_john_smith_bad_phone}

\* what is typed at the prompts of the change branch
ChangeInputs ==
    {[NoInput EXCEPT !.who = w, !.field = f[1], !.new = f[2]] :
        w \in {s_ann, s_zed},
        f \in {<<kw_phone, p_short>>, <<kw_phone, p_second>>, <<kw_email, e_bad>>,
               <<kw_email, e_good>>, <<kw_address, s_kyiv>>, <<s_zed, s_kyiv>>}}

DeleteLines == {l_delete_smith, l_delete_ann}

\* what is typed at "Contact name: "
DeleteAnswers == {<<<<>>>>, <<s_john \o <<" ">> \o s_smith>>}

BirthdayLines == {l_add_birthday_ann, l_add_birthday_ann_future, l_add_birthday_ann_nodate}

\* the lines of the commands that only show something
ViewLines ==
    {l_all, l_search_ann, l_show_birthday_ann, l_show_birthday_paul, l_birthdays_7,
     l_birthdays_soon, l_help, l_hello, l_change_email_ann, l_change_address_ann,
     l_exit_now, l_phone_smith}

\* what is typed at the prompts of add-note
InterruptedNoteInputs ==
    {[NoInput EXCEPT !.text = t_red_car, !.interrupt = "Add tags? (y/n): "],
     [NoInput EXCEPT !.text = t_red_car, !.yes = kw_y, !.interrupt = "Tags: "],
     [NoInput EXCEPT !.interrupt = "Text: "]}

Menu ==
    /\ mode = "main"
    /\ \E raw \in {kw_contacts, kw_notes, kw_exit, s_zed} : MainMenu(raw)

CmdAdd ==
    /\ mode = "contacts"
    /\ \/ \E in \in AddInputs : ContactLine(kw_add, l_add, <<>>, in)
       \/ \E raw \in AddLines : ContactLine(kw_add, raw, <<>>, NoInput)

CmdChange ==
    /\ mode = "contacts"
    /\ \E in \in ChangeInputs : ContactLine(kw_change, l_change, <<>>, in)

CmdRemovePhone ==
    /\ mode = "contacts"
    /\ \E raw \in {l_remove_phone, l_remove_phone_ann} :
        ContactLine(kw_remove_phone, raw, <<s_ann, p_first>>, NoInput)

CmdDelete ==
    /\ mode = "contacts"
    /\ \/ \E answers \in DeleteAnswers : ContactLine(kw_delete, l_delete, answers, NoInput)
       \/ \E raw \in DeleteLines : ContactLine(kw_delete, raw, <<>>, NoInput)

CmdAddBirthday ==
    /\ mode = "contacts"
    /\ \E raw \in BirthdayLines : ContactLine(kw_add_birthday, raw, <<>>, NoInput)

CmdAddContactNote ==
    /\ mode = "contacts"
    /\ ContactLine(kw_add_contact_note, l_add_contact_note_ann, <<>>, NoInput)

CmdView ==
    /\ mode = "contacts"
    /\ \E raw \in ViewLines : ContactLine(Split(raw)[1], raw, <<>>, NoInput)

\* add-note with Ctrl-C typed at one of its prompts
CmdAddNote ==
    /\ mode = "notes"
    /\ \E in \in InterruptedNoteInputs : NotesLine(kw_add_note, l_add_note, <<>>, in)

Unknown ==
    /\ mode # "main"
    /\ \E raw \in {l_blank, s_zed, l_help, l_hello} : UnknownLine(raw)

Back ==
    /\ mode # "main"
    /\ BackLine(kw_back)

Exit ==
    /\ mode # "main"
    /\ \E raw \in {kw_exit, kw_close} : ExitLine(raw)

KeyboardInterrupt ==
    /\ status = "running"
    /\ Interrupt

Next ==
    \/ Menu
    \/ CmdAdd
    \/ CmdChange
    \/ CmdRemovePhone
    \/ CmdDelete
    \/ CmdAddBirthday
    \/ CmdAddContactNote
    \/ CmdView
    \/ CmdAddNote
    \/ Unknown
    \/ Back
    \/ Exit
    \/ KeyboardInterrupt

Spec == Init /\ [][Next]_vars

-----------------------------------------------------------------------------
(* SpecResolver: contacts are added in any order, and names are looked up  *)
(* with the phone command, whose single argument goes to AddressBook.find  *)

ResolverAddLines == {l_add_john_smith_first, l_add_john_doe_second, l_add_ann}

\* what is typed at "Contact name: "
ResolverTexts ==
    {t_john, t_JOHN, t_smith, t_paul, t_john_smith, t_smith_john, t_john_smith_john,
     t_n, t_blank}

\* what is typed at "Select number >>> "
ResolverSelections ==
    {c_0, c_1, c_2, c_3, c_01, c_x, c_superscript_2, c_eastern_1, c_2_padded, <<>>}

ResolverMenu ==
    /\ mode = "main"
    /\ MainMenu(kw_contacts)

\* the contact an add line names is not in the address book yet
NotYetStored(raw) ==
    LET p == Split(raw)
    IN  KeyIndex(ab, make_key(p[2], IF Len(p) > 2 THEN p[3] ELSE <<>>)) = 0

\* each contact of the lookup scenarios is added once, in any order
ResolverAdd ==
    /\ mode = "contacts"
    /\ \E raw \in ResolverAddLines :
        /\ NotYetStored(raw)
        /\ ContactLine(kw_add, raw, <<>>, NoInput)

ResolverFind ==
    /\ mode = "contacts"
    /\ \E text \in ResolverTexts, sel \in ResolverSelections :
        ContactLine(kw_phone, l_phone, <<text>>, [NoInput EXCEPT !.sel = sel])

NextResolver == ResolverMenu \/ ResolverAdd \/ ResolverFind

SpecResolver == Init /\ [][NextResolver]_vars

-----------------------------------------------------------------------------
(* SpecStore: contacts are added and added again, by prompts and by lines  *)

\* what prompt_validated returns in the add branch: Ann, with or without a phone
StoreInputs ==
    {[NoInput EXCEPT !.name = <<s_Ann>>, !.phone = p] :
        p \in {BlankLine, <<p_first>>, <<p_second>>, <<p_short, <<>>>>}}
        \cup {[NoInput EXCEPT !.name = <<s_Ann_padded>>, !.surname = <<s_padded>>,
                             !.email = <<e_bad, e_good_padded>>]}

\* add lines that carry their fields: name, surname, phone, email, address
StoreLines ==
    {l_add_john_smith, l_add_john_smith_bad_email, l_add_john_smith_bad_phone,
     l_add_john_SMITH_full, l_add_Eva_tab}

StoreMenu ==
    /\ mode = "main"
    /\ MainMenu(kw_contacts)

StoreAddPrompted ==
    /\ mode = "contacts"
    /\ \E in \in StoreInputs : ContactLine(kw_add, l_add, <<>>, in)

StoreAddLine ==
    /\ mode = "contacts"
    /\ \E raw \in StoreLines : ContactLine(kw_add, raw, <<>>, NoInput)

NextStore == StoreMenu \/ StoreAddPrompted \/ StoreAddLine

SpecStore == Init /\ [][NextStore]_vars

-----------------------------------------------------------------------------
(* SpecBirthdays: sessions on several days, around the end of February and *)
(* of the year; birthdays are set and the coming ones are asked for        *)

\* datetime.date.today() of a session
SessionDays ==
    {<<2023, 2, 28>>, <<2023, 3, 1>>, <<2023, 12, 31>>,
     <<2024, 2, 28>>, <<2024, 2, 29>>, <<2024, 3, 1>>}

InitBirthdays ==
    /\ ab = <<>>
    /\ nb = <<>>
    /\ today \in SessionDays
    /\ mode = "main"
    /\ status = "running"
    /\ disk = [ab |-> <<>>, nb |-> <<>>, saved |-> FALSE]
    /\ out = NoHandler("main", <<>>, "")

BirthdayAddLines == {l_add_Ann, l_add_john_smith, l_add_john_doe}

BirthdaySetLines ==
    {l_add_birthday_ann_leap_day, l_add_birthday_ann_march, l_add_birthday_smith_march,
     l_add_birthday_doe_january}

BirthdayAskLines ==
    {l_birthdays_0, l_birthdays_1, l_birthdays_2, l_birthdays_365, l_birthdays_366}

BirthdaysMenu ==
    /\ mode = "main"
    /\ MainMenu(kw_contacts)

BirthdaysAdd ==
    /\ mode = "contacts"
    /\ \E raw \in BirthdayAddLines :
        /\ NotYetStored(raw)
        /\ ContactLine(kw_add, raw, <<>>, NoInput)

BirthdaysSet ==
    /\ mode = "contacts"
    /\ \E raw \in BirthdaySetLines : ContactLine(kw_add_birthday, raw, <<>>, NoInput)

BirthdaysAsk ==
    /\ mode = "contacts"
    /\ \E raw \in BirthdayAskLines : ContactLine(kw_birthdays, raw, <<>>, NoInput)

NextBirthdays == BirthdaysMenu \/ BirthdaysAdd \/ BirthdaysSet \/ BirthdaysAsk

SpecBirthdays == InitBirthdays /\ [][NextBirthdays]_vars

-----------------------------------------------------------------------------
(* SpecNotes: notes are written, tagged and searched                       *)

\* what is typed at "Text: ", "Add tags? (y/n): " and "Tags: "
NoteInputs ==
    {[NoInput EXCEPT !.text = t_my_blue_sedan, !.yes = kw_y, !.tags = t_car],
     [NoInput EXCEPT !.text = t_red_car, !.yes = s_n],
     [NoInput EXCEPT !.text = t_Blue, !.yes = kw_y, !.tags = t_big_Car],
     [NoInput EXCEPT !.text = t_blank, !.yes = s_n],
     [NoInput EXCEPT !.text = t_red_car, !.interrupt = "Add tags? (y/n): "],
     [NoInput EXCEPT !.text = t_Blue, !.yes = kw_y, !.interrupt = "Tags: "],
     [NoInput EXCEPT !.interrupt = "Text: "]}

AddTagLines ==
    {l_add_tag_1_car, l_add_tag_0_food, l_add_tag_2_food, l_add_tag_x_food,
     l_add_tag_0_1_food}

NoteViewLines == {l_list_notes, l_search_tag_food, l_help}

SearchLines == {l_search_note_blue_car, l_search_note_car}

\* what is typed at "Phrase: " when search-note comes without one
SearchQueries == {q_Blue_CAR, q_lue_ed, q_big_car, q_mark, s_zed}

NotesMenu ==
    /\ mode = "main"
    /\ MainMenu(kw_notes)

NotesAdd ==
    /\ mode = "notes"
    /\ \E in \in NoteInputs : NotesLine(kw_add_note, l_add_note, <<>>, in)

NotesAddTag ==
    /\ mode = "notes"
    /\ \E raw \in AddTagLines : NotesLine(kw_add_tag, raw, <<>>, NoInput)

NotesView ==
    /\ mode = "notes"
    /\ \E raw \in NoteViewLines : NotesLine(Split(raw)[1], raw, <<>>, NoInput)

NotesSearch ==
    /\ mode = "notes"
    /\ \/ \E raw \in SearchLines : NotesLine(kw_search_note, raw, <<>>, NoInput)
       \/ \E query \in SearchQueries : NotesLine(kw_search_note, l_search_note, <<query>>, NoInput)

NextNotes == NotesMenu \/ NotesAdd \/ NotesAddTag \/ NotesView \/ NotesSearch

SpecNotes == Init /\ [][NextNotes]_vars

-----------------------------------------------------------------------------
(* SpecFields: the commands that write the fields of a record, in any      *)
(* order: add, change, remove-phone, add-birthday, add-contact-note and    *)
(* delete                                                                  *)

p_superscript == <<"²","²","²","²","²","²","²","²","²","²">>

s_john_smith == <<"j","o","h","n"," ","s","m","i","t","h">>

l_add_john_smith_superscript_phone == <<"a","d","d"," ","j","o","h","n"," ","s","m","i","t","h"," ","²","²","²","²","²","²","²","²","²","²">>

\* what prompt_validated returns in the add branch: a phone passed Phone, a name and
\* a surname are returned as they were typed, a name left blank included
FieldsAddInputs ==
    {[NoInput EXCEPT !.name = <<s_Ann>>, !.phone = <<p_first>>],
     [NoInput EXCEPT !.name = <<s_john_smith>>],
     [NoInput EXCEPT !.surname = <<s_ann>>],
     [NoInput EXCEPT !.name = <<s_Ann>>, !.phone = <<p_short, p_first>>,
                     !.email = <<e_bad, e_good_padded>>]}

FieldsAddLines == {l_add_john_smith, l_add_john_smith_superscript_phone}

\* what is typed at the prompts of the change branch
FieldsChangeInputs ==
    {[NoInput EXCEPT !.who = s_ann, !.field = f[1], !.new = f[2]] :
        f \in {<<kw_phone, p_short>>, <<kw_email, e_bad>>, <<kw_email, e_good>>}}

FieldsBirthdayLines ==
    {l_add_birthday_ann, l_add_birthday_ann_march, l_add_birthday_ann_future}

FieldsMenu ==
    /\ mode = "main"
    /\ MainMenu(kw_contacts)

FieldsAdd ==
    /\ mode = "contacts"
    /\ \/ \E in \in FieldsAddInputs : ContactLine(kw_add, l_add, <<>>, in)
       \/ \E raw \in FieldsAddLines : ContactLine(kw_add, raw, <<>>, NoInput)

FieldsChange ==
    /\ mode = "contacts"
    /\ \E in \in FieldsChangeInputs : ContactLine(kw_change, l_change, <<>>, in)

FieldsRemovePhone ==
    /\ mode = "contacts"
    /\ ContactLine(kw_remove_phone, l_remove_phone_ann, <<>>, NoInput)

FieldsAddBirthday ==
    /\ mode = "contacts"
    /\ \E raw \in FieldsBirthdayLines : ContactLine(kw_add_birthday, raw, <<>>, NoInput)

FieldsAddContactNote ==
    /\ mode = "contacts"
    /\ ContactLine(kw_add_contact_note, l_add_contact_note_ann, <<>>, NoInput)

FieldsDelete ==
    /\ mode = "contacts"
    /\ ContactLine(kw_delete, l_delete_ann, <<>>, NoInput)

NextFields ==
    \/ FieldsMenu
    \/ FieldsAdd
    \/ FieldsChange
    \/ FieldsRemovePhone
    \/ FieldsAddBirthday
    \/ FieldsAddContactNote
    \/ FieldsDelete

SpecFields == Init /\ [][NextFields]_vars

-----------------------------------------------------------------------------
(* Claims checked under Spec                                               *)

\* a command that failed: its handler raised an exception; Ctrl-C typed at a prompt
\* is no failure of the command
Failed(o) == o.exc \notin {"none", "KeyboardInterrupt"}

\* C1: every contacts or notes command that fails leaves the record store and the
\* note collection exactly as they were before the command was issued
C1_FailedCommandLeavesStoreUnchanged ==
    [][(out'.mode \in {"contacts", "notes"} /\ Failed(out')) => (ab' = ab /\ nb' = nb)]_vars

\* C2: no failure of a command ends the session: the loop ends only on exit,
\* close or an interrupt, and then both books have been saved as they are
C2_NoFailureIsFatal ==
    /\ status # "crashed"
    /\ status = "exited" => (disk.saved /\ disk.ab = ab /\ disk.nb = nb)

\* C3: delete on a text that resolves, by the rule of find, to the unique key K
\* removes exactly the entry K and leaves every other entry unchanged
C3_DeleteResolvesLikeFind ==
    [][(/\ out'.mode = "contacts"
        /\ Len(out'.parts) = 2
        /\ out'.parts[1] = kw_delete
        /\ get_record_key(out'.parts[2], ab, <<>>).found
        /\ get_record_key(out'.parts[2], ab, <<>>).prompts = 0)
       => ab' = DelItem(ab, get_record_key(out'.parts[2], ab, <<>>).key)]_vars

-----------------------------------------------------------------------------
(* Claims checked under SpecResolver                                       *)

\* p occurs in s at some offset
Occurs(p, s) ==
    \E off \in 0..(Len(s) - Len(p)) : \A i \in 1..Len(p) : s[off + i] = p[i]

\* where a maximal run without a blank begins in a text, and where one ends
TokenStarts(text) == {i \in Positions(text) : text[i] # " " /\ (i = 1 \/ text[i - 1] = " ")}

TokenEnds(text) ==
    {j \in Positions(text) : text[j] # " " /\ (j = Len(text) \/ text[j + 1] = " ")}

\* every maximal run without a blank, as the pair of its first and last position
TokenSpans(text) ==
    LET ends == TokenEnds(text)
    IN  {<<i, CHOOSE j \in ends : j >= i /\ \A k \in ends : k >= i => j <= k>> :
            i \in TokenStarts(text)}

\* the whitespace-separated tokens of a text
Tokens(text) == {SubSeq(text, ij[1], ij[2]) : ij \in TokenSpans(text)}

\* the first token of a text and, when more follows, everything from the second
\* token to the last, inner blanks included
NameAndRest(text) ==
    LET S      == TokenSpans(text)
        first  == CHOOSE a \in S : \A b \in S : a[1] <= b[1]
        others == S \ {first}
        second == CHOOSE a \in others : \A b \in others : a[1] <= b[1]
        last   == CHOOSE a \in others : \A b \in others : b[2] <= a[2]
    IN  IF S = {} THEN {}
        ELSE IF others = {} THEN {SubSeq(text, first[1], first[2])}
        ELSE {SubSeq(text, first[1], first[2]), SubSeq(text, second[1], last[2])}

\* the positions of the store keys in which every one of the words occurs,
\* letter case apart; an input without a word has no candidate
CandidatePositions(words, book) ==
    IF words = {} THEN {}
    ELSE {i \in Positions(book) : \A w \in words : Occurs(Lower(w), Lower(book[i].key))}

\* the j-th position of a set of positions, in ascending order
NthPosition(P, j) == CHOOSE p \in P : Cardinality({q \in P : q < p}) = j - 1

\* a step that looked a name up with the phone command
IsLookup(o) == o.mode = "contacts" /\ Len(o.parts) = 2 /\ o.parts[1] = kw_phone

\* what a lookup of out'.parts[2] does when P are the candidate positions: with none
\* it fails with NotFound, with one it returns that record without a prompt, with
\* several exactly those are listed; the store is unchanged
ResolvesAmong(P) ==
    /\ ab' = ab
    /\ P = {} =>
        /\ ~out'.found
        /\ out'.exc = "KeyError"
        /\ out'.prompts = 0
    /\ Cardinality(P) = 1 =>
        /\ out'.found
        /\ out'.exc = "none"
        /\ out'.prompts = 0
        /\ \A i \in P :
            /\ out'.key = ab[i].key
            /\ out'.shown = Join(<<",", " ">>, ab[i].rec.phones)
    /\ Cardinality(P) > 1 =>
        /\ out'.prompts = 1
        /\ {out'.listed[j][2] : j \in Positions(out'.listed)} = {Title(ab[i].key) : i \in P}

\* C4 as stated: the candidate keys are the store keys in which every
\* whitespace-separated token of the input occurs, case-insensitively
C4_EveryTokenIsASubstring ==
    [][IsLookup(out') => ResolvesAmong(CandidatePositions(Tokens(out'.parts[2]), ab))]_vars

\* C4 as amended: the candidate keys are the store keys in which the first token of
\* the input, and the rest of the input taken as one string, occur case-insensitively;
\* with no candidate (or an empty input) resolution fails with NotFound, with exactly
\* one that key's record is returned without a prompt, and the store is unchanged
C4_NameAndRestAreSubstrings ==
    [][IsLookup(out') => ResolvesAmong(CandidatePositions(NameAndRest(out'.parts[2]), ab))]_vars

\* a lookup of "smith" among three contacts returned john smith without a prompt
C4_Witness ==
    /\ IsLookup(out)
    /\ out.parts[2] = t_smith
    /\ Len(ab) = 3
    /\ out.found /\ out.prompts = 0
    /\ out.key = s_john \o <<" ">> \o s_smith

\* C5: with more than one candidate the resolver lists them 1-indexed in store
\* insertion order and asks for one selection; a numeric selection i in 1..n returns
\* the i-th candidate, any other selection returns no record; the store is unchanged
C5_AmbiguousSelection ==
    [][IsLookup(out') =>
        \A P \in {CandidatePositions(NameAndRest(out'.parts[2]), ab)} :
            LET n   == Cardinality(P)
                sel == Strip(out'.in.sel)
            IN  n > 1 =>
                /\ ab' = ab
                /\ out'.prompts = 1
                /\ out'.listed = [j \in 1..n |-> <<j, Title(ab[NthPosition(P, j)].key)>>]
                /\ IF IsDecimal(sel) /\ ToInt(sel) \in 1..n
                   THEN /\ out'.found /\ out'.exc = "none"
                        /\ out'.key = ab[NthPosition(P, ToInt(sel))].key
                        /\ out'.shown =
                               Join(<<",", " ">>, ab[NthPosition(P, ToInt(sel))].rec.phones)
                   ELSE ~out'.found /\ Failed(out') /\ out'.caught]_vars

\* a lookup of "john" listed two candidates, and the selection 2 returned the second
C5_Witness ==
    /\ IsLookup(out)
    /\ out.parts[2] = t_john
    /\ Len(out.listed) = 2
    /\ out.prompts = 1
    /\ out.in.sel = c_2
    /\ out.found
    /\ Lower(out.listed[2][2]) = out.key
    /\ Lower(out.listed[1][2]) # out.key

-----------------------------------------------------------------------------
(* Claims checked under SpecStore                                          *)

\* a step that ran the add command
IsAdd(o) == o.mode = "contacts" /\ o.parts # <<>> /\ o.parts[1] = kw_add

\* the answer a prompt of add took: the last line typed at it, without the blanks
\* around it
Answer(lines) == Strip(lines[Len(lines)])

\* the fields an add command was given: typed at its prompts, or on its line
AddFields(o) ==
    LET args == Tail(o.parts)
        at(n) == IF Len(args) >= n THEN args[n] ELSE <<>>
    IN  IF args = <<>>
        THEN [name |-> Answer(o.in.name), surname |-> Answer(o.in.surname),
              phone |-> Answer(o.in.phone), email |-> Answer(o.in.email),
              address |-> Answer(o.in.address)]
        ELSE [name |-> at(1), surname |-> at(2), phone |-> at(3), email |-> at(4),
              address |-> IF Len(args) > 4 THEN Join(<<" ">>, SubSeq(args, 5, Len(args)))
                          ELSE <<>>]

\* the value a field has after an update that supplied new for it
Supplied(new, old) == IF new # <<>> THEN new ELSE old

\* C9: an add on a key already in the store creates no second entry; when it is
\* accepted it appends the supplied phone after the earlier ones, replaces surname,
\* email and address only by a non-empty supplied value, and says "updated"; on an
\* absent key an accepted add appends one new record and says "added"
C9_AddOrUpdate ==
    [][IsAdd(out') =>
        \A f \in {AddFields(out')} :
            LET k == make_key(f.name, f.surname)
                P == {i \in Positions(ab) : ab[i].key = k}
            IN  /\ \A i, j \in Positions(ab') : ab'[i].key = ab'[j].key => i = j
                /\ P # {} => Len(ab') = Len(ab)
                /\ (out'.exc = "none" /\ P # {}) =>
                    /\ out'.msg = "Contact updated."
                    /\ \A i \in Positions(ab) : i \notin P => ab'[i] = ab[i]
                    /\ \A i \in P :
                        /\ ab'[i].key = k
                        /\ ab'[i].rec.phones = ab[i].rec.phones \o
                                (IF f.phone # <<>> THEN <<f.phone>> ELSE <<>>)
                        /\ ab'[i].rec.surname = Supplied(f.surname, ab[i].rec.surname)
                        /\ ab'[i].rec.email = Supplied(Strip(f.email), ab[i].rec.email)
                        /\ ab'[i].rec.address = Supplied(f.address, ab[i].rec.address)
                        /\ ab'[i].rec.name = ab[i].rec.name
                        /\ ab'[i].rec.birthday = ab[i].rec.birthday
                        /\ ab'[i].rec.contact_notes = ab[i].rec.contact_notes
                /\ (out'.exc = "none" /\ P = {}) =>
                    /\ out'.msg = "Contact added."
                    /\ Len(ab') = Len(ab) + 1
                    /\ SubSeq(ab', 1, Len(ab)) = ab
                    /\ ab'[Len(ab')].key = k
                    /\ ab'[Len(ab')].rec.name = Strip(f.name)
                    /\ ab'[Len(ab')].rec.surname = f.surname
                    /\ ab'[Len(ab')].rec.email = Strip(f.email)
                    /\ ab'[Len(ab')].rec.address = f.address
                    /\ ab'[Len(ab')].rec.phones = IF f.phone # <<>> THEN <<f.phone>> ELSE <<>>]_vars

\* Ann was added with the first phone and added again with the second: one record,
\* with both phones in that order
C9_Witness ==
    /\ IsAdd(out)
    /\ out.in.name = <<s_Ann>> /\ out.in.phone = <<p_second>>
    /\ out.msg = "Contact updated."
    /\ Cardinality({i \in Positions(ab) : ab[i].key = s_ann}) = 1
    /\ \A i \in Positions(ab) : ab[i].key = s_ann => ab[i].rec.phones = <<p_first, p_second>>

-----------------------------------------------------------------------------
(* Claims checked under SpecBirthdays                                      *)

\* the last command was "birthdays N" for a number N
IsBirthdays(o) ==
    /\ o.mode = "contacts" /\ Len(o.parts) = 2
    /\ o.parts[1] = kw_birthdays /\ IsDecimal(o.parts[2])

\* the N of that command, and what AddressBook.upcoming(N) returns for it
DaysAhead == ToInt(out.parts[2])

Result == upcoming(ab, DaysAhead, today)

LeapYear(y) == y % 4 = 0 /\ (y % 100 # 0 \/ y % 400 = 0)

\* the day and month of a birthday in the year y, 28 February standing in for
\* 29 February when y is not a leap year
ProjectedIn(y, birthday) ==
    IF birthday[2] = 2 /\ birthday[3] = 29 /\ ~LeapYear(y) THEN <<y, 2, 28>>
    ELSE <<y, birthday[2], birthday[3]>>

Precedes(a, b) ==
    \/ a[1] < b[1]
    \/ a[1] = b[1] /\ a[2] < b[2]
    \/ a[1] = b[1] /\ a[2] = b[2] /\ a[3] < b[3]

\* the projected date: in this year, or in the next when that is already past
Projected(birthday, now) ==
    IF Precedes(ProjectedIn(now[1], birthday), now) THEN ProjectedIn(now[1] + 1, birthday)
    ELSE ProjectedIn(now[1], birthday)

\* the i-th record has a birthday whose projected date is 0..n days from today
InWindow(i, n) ==
    /\ ab[i].rec.birthday # NoDate
    /\ Ordinal(Projected(ab[i].rec.birthday, today)) - Ordinal(today) \in 0..n

DistinctNames ==
    \A i, j \in Positions(ab) : ab[i].rec.name = ab[j].rec.name => i = j

\* the result has an entry under the name of the i-th record
HasEntry(i) == \E e \in Positions(Result) : Result[e].key = ab[i].rec.name

\* C6: in a store of pairwise distinct names a record has an entry in the result of
\* upcoming(daysAhead) iff its birthday is set and its projected date is between 0 and
\* daysAhead days from today, both ends included
C6_WindowIsInclusive ==
    (IsBirthdays(out) /\ DistinctNames) =>
        \A i \in Positions(ab) : HasEntry(i) <=> InWindow(i, DaysAhead)

\* on 28.02.2024 "birthdays 1" includes Ann, born on 29 February and so one day
\* ahead, leaves out john smith, born on 1 March and so two days ahead, and
\* "birthdays 0" on her day would include her
C6_Witness ==
    /\ IsBirthdays(out) /\ DistinctNames
    /\ today = <<2024, 2, 28>> /\ DaysAhead = 1
    /\ \E i, j \in Positions(ab) :
        /\ ab[i].rec.birthday = <<2000, 2, 29>> /\ HasEntry(i)
        /\ ab[j].rec.birthday = <<1999, 3, 1>> /\ ~HasEntry(j)

\* C7: the result of upcoming(daysAhead) has exactly one entry for each record whose
\* birthday falls in the window, under that record's store key and with its projected
\* date and age; the number of entries is the number of in-window records
C7_OneEntryPerRecordInWindow ==
    IsBirthdays(out) =>
        LET W == {i \in Positions(ab) : InWindow(i, DaysAhead)}
        IN  /\ Len(Result) = Cardinality(W)
            /\ \A i \in W : \E e \in Positions(Result) :
                /\ Result[e].key = ab[i].key
                /\ Result[e].rec.date = Projected(ab[i].rec.birthday, today)
                /\ Result[e].rec.age = Result[e].rec.date[1] - ab[i].rec.birthday[1]

\* C8: every entry of the result is the entry of a record of its name: its date is
\* the record's birthday projected on today's year, or on the next when that is
\* already past, with 28 February for 29 February in a year that is not a leap year;
\* the date is never before today, so that 366 days ahead reach every birthday of a
\* store of distinct names, and the age is the date's year minus the birth year
C8_ProjectedDate ==
    IsBirthdays(out) =>
      /\ (DaysAhead = 366 /\ DistinctNames) =>
            \A i \in Positions(ab) : ab[i].rec.birthday # NoDate => HasEntry(i)
      /\ \A e \in Positions(Result) : \E i \in Positions(ab) :
            LET b == ab[i].rec.birthday
                d == Result[e].rec.date
            IN  /\ ab[i].rec.name = Result[e].key
                /\ b # NoDate
                /\ d = Projected(b, today)
                /\ ~Precedes(d, today)
                /\ (b[2] = 2 /\ b[3] = 29 /\ ~LeapYear(d[1])) => (d[2] = 2 /\ d[3] = 28)
                /\ (b[2] = 2 /\ b[3] = 29 /\ LeapYear(d[1])) => (d[2] = 2 /\ d[3] = 29)
                /\ ~(b[2] = 2 /\ b[3] = 29) => (d[2] = b[2] /\ d[3] = b[3])
                /\ d[1] \in {today[1], today[1] + 1}
                /\ Result[e].rec.age = d[1] - b[1]

\* on 01.03.2024 Ann, born on 29.02.2000, is reported for 28.02.2025, when she is 25
C8_Witness ==
    /\ IsBirthdays(out)
    /\ today = <<2024, 3, 1>>
    /\ \E e \in Positions(Result) :
        /\ Result[e].key = s_Ann
        /\ Result[e].rec = [date |-> <<2025, 2, 28>>, age |-> 25]
    /\ \E i \in Positions(ab) : ab[i].rec.birthday = <<2000, 2, 29>>

-----------------------------------------------------------------------------
(* Claims checked under SpecNotes                                          *)

\* the last command was search-note
IsSearchNote(o) == o.mode = "notes" /\ Len(o.parts) >= 2 /\ o.parts[1] = kw_search_note

\* every maximal run of word characters of a text, as its first and last position
WordSpans(text) ==
    LET starts == {i \in Positions(text) :
                      IsWordChar(text[i]) /\ (i = 1 \/ ~IsWordChar(text[i - 1]))}
        ends   == {j \in Positions(text) :
                      IsWordChar(text[j]) /\ (j = Len(text) \/ ~IsWordChar(text[j + 1]))}
    IN  {<<i, CHOOSE j \in ends : j >= i /\ \A k \in ends : k >= i => j <= k>> : i \in starts}

\* the lowercase word tokens of a query
WordTokens(query) == {Lower(SubSeq(query, ij[1], ij[2])) : ij \in WordSpans(query)}

\* every token of the query occurs in the note's text or in its joined tags
MatchesEveryToken(query, note) ==
    \A w \in WordTokens(query) :
        \/ Occurs(w, Lower(note.text))
        \/ Occurs(w, Lower(Join(<<" ">>, note.tags)))

\* C10: search-note shows, in the order of the note book, exactly the notes in which
\* every lowercase word token of the query is a substring of the lowercased text or of
\* the lowercased joined tags; when there is none the keyword search shows nothing
C10_KeywordSearch ==
    (IsSearchNote(out) /\ nb # <<>>) =>
        LET query == Join(<<" ">>, Tail(out.parts))
            hits  == {i \in Positions(nb) : MatchesEveryToken(query, nb[i])}
        IN  /\ Range(out.shown) = hits
            /\ \A a, b \in Positions(out.shown) : a < b => out.shown[a] < out.shown[b]
            /\ out.msg = IF hits # {} THEN "Keyword match:"
                         ELSE "AI search disabled (no key.txt)."

\* 'blue car' found the note 'my blue sedan' tagged 'car' and not the note 'red car'
C10_Witness ==
    /\ IsSearchNote(out)
    /\ Tail(out.parts) = <<<<"b","l","u","e">>, t_car>>
    /\ Len(nb) = 2
    /\ \E i, j \in Positions(nb) :
        /\ nb[i].text = t_my_blue_sedan /\ nb[i].tags = <<t_car>>
        /\ nb[j].text = t_red_car /\ nb[j].tags = <<>>
        /\ out.shown = <<i>>

-----------------------------------------------------------------------------
(* Claims checked under SpecFields                                         *)

\* one of the ten characters 0..9
DecimalDigit(c) == c \in {"0", "1", "2", "3", "4", "5", "6", "7", "8", "9"}

\* a text of the shape local@domain.tld: one "@", something before it, and after it
\* a full stop with something on both sides
LocalAtDomainDotTld(e) ==
    \E a \in Positions(e) :
        /\ e[a] = "@"
        /\ \A k \in Positions(e) : e[k] = "@" => k = a
        /\ a > 1
        /\ \E d \in (a + 2)..(Len(e) - 1) : e[d] = "."

\* the fields of a stored record are valid: a name that is not empty and has no
\* blank at its ends, phones of exactly ten decimal digits, an e-mail that is empty
\* or of the shape local@domain.tld, and a birthday that is not after today
ValidRecord(r) ==
    /\ r.name # <<>>
    /\ r.name[1] # " " /\ r.name[Len(r.name)] # " "
    /\ \A i \in Positions(r.phones) :
        /\ Len(r.phones[i]) = 10
        /\ \A k \in 1..10 : DecimalDigit(r.phones[i][k])
    /\ r.email = <<>> \/ LocalAtDomainDotTld(r.email)
    /\ r.birthday # NoDate => ~Precedes(today, r.birthday)

\* C11: after any sequence of add, change, remove-phone, add-birthday,
\* add-contact-note and delete, failed ones included, every stored record has a
\* non-empty trimmed name, phones of exactly 10 decimal digits, an e-mail that is
\* empty or of the shape local@domain.tld, and a birthday not after the day it was set
C11_NoInvalidValueIsStored ==
    \A i \in Positions(ab) : ValidRecord(ab[i].rec)

\* a step that ran add-birthday with a name and a date
IsAddBirthday(o) ==
    o.mode = "contacts" /\ Len(o.parts) = 3 /\ o.parts[1] = kw_add_birthday

\* C12: add-birthday on a record whose birthday is set fails with "Birthday already
\* set." and leaves the store as it was; and the birthday of a record, once set, is
\* the same after every command for as long as the record's key stays in the store
C12_BirthdaySetAtMostOnce ==
    [][/\ \A i \in Positions(ab) : \A j \in Positions(ab') :
            (ab[i].rec.birthday # NoDate /\ ab'[j].key = ab[i].key)
                => ab'[j].rec.birthday = ab[i].rec.birthday
       /\ (/\ IsAddBirthday(out')
           /\ out'.found
           /\ \E i \in Positions(ab) : ab[i].key = out'.key /\ ab[i].rec.birthday # NoDate)
          => (/\ Failed(out') /\ out'.caught
              /\ out'.msg = "Birthday already set."
              /\ ab' = ab)]_vars

\* Ann's birthday was set to 29.02.2024, and "add-birthday ann 01.03.2000" then failed
\* and left it
C12_Witness ==
    /\ IsAddBirthday(out)
    /\ out.parts[3] = <<"0","1",".","0","3",".","2","0","0","0">>
    /\ out.msg = "Birthday already set."
    /\ \E i \in Positions(ab) : ab[i].key = s_ann /\ ab[i].rec.birthday = <<2024, 2, 29>>

-----------------------------------------------------------------------------
(* Claims checked under Spec: the help tables                              *)

\* C13: a command named in the help table of its mode is carried out and never
\* answered with "Unknown command." or "Unknown contact command.": every key of
\* CONTACT_DESC in contacts mode, change-email and change-address setting the e-mail
\* and the address of the contact they resolve, and hello and help in notes mode
\* showing the list of the notes commands
C13_HelpTableCommandsAreCarriedOut ==
    /\ (out.mode = "contacts" /\ out.parts # <<>> /\ InSeq(out.parts[1], CONTACT_CMDS))
        => out.msg \notin {"Unknown command.", "Unknown contact command."}
    /\ (out.mode = "contacts" /\ Len(out.parts) = 3 /\ out.exc = "none"
            /\ out.parts[1] \in {kw_change_email, kw_change_address})
        => \E i \in Positions(ab) :
            /\ Occurs(Lower(out.parts[2]), ab[i].key)
            /\ out.parts[1] = kw_change_email => ab[i].rec.email = out.parts[3]
            /\ out.parts[1] = kw_change_address => ab[i].rec.address = out.parts[3]
    /\ (out.mode = "notes" /\ out.parts # <<>> /\ out.parts[1] \in {kw_hello, kw_help})
        => (out.msg # "Unknown command." /\ out.shown = <<"help notes">>)

-----------------------------------------------------------------------------
(* Claims checked under SpecNotes: add-tag                                 *)

\* a step that ran add-tag with an index
IsAddTag(o) == o.mode = "notes" /\ Len(o.parts) >= 2 /\ o.parts[1] = kw_add_tag

\* the index designates one of n notes: it writes a number, and one of 1..n
Designates(idx, n) == ParseInt(idx).ok /\ ParseInt(idx).value \in 1..n

\* C14: add-tag with an index that designates no note (0, a negative number, a number
\* above the number of notes, or no number) fails with a message and leaves every note
\* as it was; with an index i of 1..number of notes it appends the tags to note i and
\* changes nothing else
C14_AddTagIndex ==
    [][IsAddTag(out') =>
        LET idx  == out'.parts[2]
            tags == SubSeq(out'.parts, 3, Len(out'.parts))
        IN  IF Designates(idx, Len(nb))
            THEN /\ ~Failed(out')
                 /\ nb' = [nb EXCEPT ![ToInt(idx)].tags = @ \o tags]
            ELSE /\ Failed(out') /\ out'.caught /\ out'.msg # ""
                 /\ nb' = nb]_vars

-----------------------------------------------------------------------------
(* Claims checked under SpecBirthdays: what "birthdays N" displays         *)

\* C15: "birthdays N" neither fails nor asks for a selection, and displays one panel
\* for each entry of upcoming(N), in ascending order of the projected dates, each with
\* the record whose birthday produced the entry
C15_EveryEntryIsShownWithItsRecord ==
    IsBirthdays(out) =>
        /\ out.exc = "none"
        /\ out.prompts = 0
        /\ Len(out.shown) = Len(Result)
        /\ \A a, b \in Positions(out.shown) :
            a < b => ~Precedes(out.shown[b].date, out.shown[a].date)
        /\ \A a \in Positions(out.shown) : \E i \in Positions(ab) :
            /\ ab[i].key = out.shown[a].key
            /\ ab[i].rec.name = out.shown[a].entry
            /\ ab[i].rec.birthday # NoDate
            /\ out.shown[a].date = Projected(ab[i].rec.birthday, today)
            /\ out.shown[a].age = out.shown[a].date[1] - ab[i].rec.birthday[1]

-----------------------------------------------------------------------------
(* Claims checked under SpecFields: the key of a record                    *)

\* "name surname" in lower case and without blanks at its ends, the surname and its
\* blank left out when the surname is empty
OwnKey(r) ==
    IF r.surname = <<>> THEN Lower(Strip(r.name))
    ELSE Lower(Strip(r.name \o <<" ">> \o r.surname))

\* C16: every record is stored under the key made of its own current name and
\* surname, also after an add that updated the surname of a contact
C16_KeyIsOwnNameAndSurname ==
    \A i \in Positions(ab) : ab[i].key = OwnKey(ab[i].rec)

====
